---- MODULE Spec2Model ----
(***************************************************************************)
(* State-machine model of the request-admission guards of accesschatgpt:   *)
(* the rate limiter, the token-issuance throttle, the daily quota manager, *)
(* the cost governor, the session block registry, the suspicious-activity  *)
(* scorer and the three route handlers that consult them.                  *)
(*                                                                         *)
(* Time is the epoch clock in milliseconds (Date.now()).  The store is the *)
(* Prisma/Postgres database: every single findUnique / create / update is  *)
(* one atomic step, and a handler is a sequence of such steps.             *)
(***************************************************************************)
EXTENDS Integers, Sequences, FiniteSets, TLC

VARIABLES
  now,            \* the wall clock, ms since the epoch
  ticks,          \* how many times the clock has been advanced
  mode,           \* "serial": calls are handled one after another; "concurrent"
  storeFaults,    \* whether the store may raise an error on a read or write
  limit,          \* the limit the rateLimit callers pass
  rateLimits,     \* table rate_limits: (identifier, endpoint) -> row
  sessionLimits,  \* table session_limits: sessionId -> row
  costTracking,   \* table cost_tracking: UTC day -> row
  usageLog,       \* table usage_logs: append-only sequence of records
  users,          \* table users: userId -> subscription tier and status
  requestFingerprints, \* table request_fingerprints: fingerprint -> row
  pc,             \* per handler: the store operation it is about to issue
  loc,            \* per handler: its local variables
  hist            \* observations of finished calls (history, not program state)

vars == <<now, ticks, mode, storeFaults, limit, rateLimits, sessionLimits,
          costTracking, usageLog, users, requestFingerprints, pc, loc, hist>>

----------------------------------------------------------------------------
(* Bounds of the model *)

NumProcs == 3
MaxTicks == 4
MaxLimit == 2
MaxCalls == 5
MaxLog == 5
MaxRequests == 2
MaxGaps == 3

Procs == 1 .. NumProcs

(* Program constants *)

windowMs == 60000
CHAT_LIMIT == 30
REALTIME_LIMIT == 20
SPEECH_LIMIT == 50
TOKEN_REQUEST_MIN_INTERVAL_MS == 5000
TOKEN_REQUEST_WINDOW_MS == 60000
FREE_DAILY_LIMIT == 20
PAID_DAILY_LIMIT == 2147483647   \* Infinity: above every count
msPerDay == 86400000
msPerHour == 3600000
BLOCK_DURATION_MS == 3600000
SUSPICIOUS_SCORE == 5
GRACE_REQUESTS == 5
DAILY_COST_LIMIT == 50
HOURLY_COST_LIMIT == 10

NoRow == [absent |-> TRUE]
NullTime == -1      \* a null timestamp column
NoUser == "none"    \* a null userId
Idle == [op |-> "none"]

(* Math.ceil(a / b) for b > 0 *)
CeilDiv(a, b) == -((-a) \div b)

(* The rows of a table that a run touches, all absent. *)
EmptyTable(keys) == [k \in keys |-> NoRow]

Others(p) == Procs \ {p}

(* A call may start when the handlers run one after another only if no other
   handler is in flight. *)
MayStart(p) ==
  /\ pc[p] = "idle"
  /\ mode = "serial" => \A q \in Others(p) : pc[q] = "idle"

(* The clock moves forward by one of the given steps. *)
Advance(deltas) ==
  /\ ticks < MaxTicks
  /\ \E d \in deltas : now' = now + d
  /\ ticks' = ticks + 1

----------------------------------------------------------------------------
(* Rate limiter: rateLimit(identifier, limit, endpoint) *)

RlNewRow(t) == [count |-> 0, resetAt |-> t + windowMs, updatedAt |-> t]

RlExpired(rec, t) == rec.resetAt <= t

RlResetRow(row, t) ==
  [row EXCEPT !.count = 0, !.resetAt = t + windowMs, !.updatedAt = t]

RlIncrementRow(row, t) == [row EXCEPT !.count = @ + 1, !.updatedAt = t]

RlLimitExceeded_OffByOne(rec, lim) == rec.count > lim

RlLimitExceeded(rec, lim) == rec.count >= lim

RlDenied(rec) == [allowed |-> FALSE, remaining |-> 0, resetAt |-> rec.resetAt]

RlAllowed(rec, lim) ==
  [allowed |-> TRUE, remaining |-> lim - rec.count, resetAt |-> rec.resetAt]

RlKey == <<"ip1", "chat">>

(* line 22 and the findUnique of lines 26-33 *)
RlFind(p) ==
  /\ MayStart(p)
  /\ hist.calls < MaxCalls
  /\ hist' = [hist EXCEPT !.calls = @ + 1]
  /\ LET rec == rateLimits[RlKey] IN
       /\ loc' = [loc EXCEPT ![p] =
                    [op |-> "rateLimit", key |-> RlKey, limit |-> limit,
                     now |-> now, found |-> rec, record |-> rec,
                     res |-> [pending |-> TRUE]]]
       /\ pc' = [pc EXCEPT ![p] =
                    IF rec = NoRow \/ RlExpired(rec, now)
                    THEN "rl_ensure" ELSE "rl_consume"]
  /\ UNCHANGED <<now, ticks, mode, storeFaults, requestFingerprints, limit,
                 rateLimits, sessionLimits, costTracking, usageLog, users>>

(* the create of lines 35-49, or the window reset of lines 50-69 *)
RlEnsure(p) ==
  /\ pc[p] = "rl_ensure"
  /\ LET l == loc[p] IN
       IF l.record = NoRow
       THEN IF rateLimits[l.key] # NoRow
            THEN \* unique index on (identifier, endpoint): the create throws
                 /\ pc' = [pc EXCEPT ![p] = "rl_done"]
                 /\ loc' = [loc EXCEPT ![p].res = [error |-> "unique"]]
                 /\ UNCHANGED rateLimits
            ELSE /\ rateLimits' = [rateLimits EXCEPT ![l.key] = RlNewRow(l.now)]
                 /\ loc' = [loc EXCEPT ![p].record = RlNewRow(l.now)]
                 /\ pc' = [pc EXCEPT ![p] = "rl_consume"]
       ELSE /\ rateLimits' = [rateLimits EXCEPT
                                ![l.key] = RlResetRow(@, l.now)]
            /\ loc' = [loc EXCEPT
                         ![p].record = RlResetRow(rateLimits[l.key], l.now)]
            /\ pc' = [pc EXCEPT ![p] = "rl_consume"]
  /\ UNCHANGED <<now, ticks, mode, storeFaults, requestFingerprints, limit,
                 sessionLimits, costTracking, usageLog, users, hist>>

(* the limit check of lines 72-79 and the increment of lines 81-99 *)
RlConsume(p) ==
  /\ pc[p] = "rl_consume"
  /\ LET l == loc[p] IN
       IF RlLimitExceeded(l.record, l.limit)
       THEN /\ loc' = [loc EXCEPT ![p].res = RlDenied(l.record)]
            /\ hist' = [hist EXCEPT !.denied = @ + 1]
            /\ UNCHANGED rateLimits
       ELSE LET row == RlIncrementRow(rateLimits[l.key], l.now) IN
            /\ rateLimits' = [rateLimits EXCEPT ![l.key] = row]
            /\ loc' = [loc EXCEPT ![p].record = row,
                                  ![p].res = RlAllowed(row, l.limit)]
            /\ hist' = [hist EXCEPT !.allowedAt = Append(@, l.now)]
  /\ pc' = [pc EXCEPT ![p] = "rl_done"]
  /\ UNCHANGED <<now, ticks, mode, storeFaults, requestFingerprints, limit,
                 sessionLimits, costTracking, usageLog, users>>

(* the caller takes the result; the handler is free for the next request *)
RlReturn(p) ==
  /\ pc[p] = "rl_done"
  /\ mode = "serial"
  /\ pc' = [pc EXCEPT ![p] = "idle"]
  /\ loc' = [loc EXCEPT ![p] = Idle]
  /\ UNCHANGED <<now, ticks, mode, storeFaults, requestFingerprints, limit,
                 rateLimits, sessionLimits, costTracking, usageLog, users,
                 hist>>

(* One after another, the calls are spread over the window, just before and
   at its end; overlapping calls are separated by whole windows. *)
RlDeltas == IF mode = "serial" THEN {1, windowMs - 1} ELSE {windowMs}

RlTick ==
  /\ Advance(RlDeltas)
  /\ UNCHANGED <<mode, storeFaults, requestFingerprints, limit, rateLimits,
                 sessionLimits, costTracking, usageLog, users, pc, loc, hist>>

(* hist: calls started, the times of the allowed calls, the denied calls,
   and how the row stood when the run began. *)
RlHist(kind, prior, t) ==
  [calls |-> 0, allowedAt |-> [i \in 1 .. prior |-> t], denied |-> 0,
   start |-> kind, prior |-> prior]

RlInitCommon(m) ==
  /\ ticks = 0
  /\ mode = m
  /\ storeFaults = FALSE
  /\ requestFingerprints = <<>>
  /\ limit \in 1 .. MaxLimit
  /\ sessionLimits = <<>>
  /\ costTracking = <<>>
  /\ usageLog = <<>>
  /\ users = <<>>
  /\ pc = [p \in Procs |-> "idle"]
  /\ loc = [p \in Procs |-> Idle]

(* A fresh database: no rate_limits row yet. *)
RlInitSerial ==
  /\ RlInitCommon("serial")
  /\ now = 0
  /\ rateLimits = EmptyTable({RlKey})
  /\ hist = RlHist("absent", 0, 0)

(* The row as c earlier allowed calls at time t0 leave it. *)
RlRowAfter(c, t0) ==
  [count |-> c, resetAt |-> t0 + windowMs, updatedAt |-> t0]

(* Overlapping calls meet no row, or the row of a window that earlier calls
   opened 1 ms ago, or the row of a window that has just run out. *)
RlInitConcurrent ==
  /\ RlInitCommon("concurrent")
  /\ now = windowMs
  /\ \/ /\ rateLimits = EmptyTable({RlKey})
        /\ hist = RlHist("absent", 0, 0)
     \/ \E c \in 1 .. limit :
          /\ rateLimits = [k \in {RlKey} |-> RlRowAfter(c, now - 1)]
          /\ hist = RlHist("open", c, now - 1)
     \/ \E c \in 1 .. limit :
          /\ rateLimits = [k \in {RlKey} |-> RlRowAfter(c, 0)]
          /\ hist = RlHist("expired", c, 0)

RlNext ==
  \/ \E p \in Procs : RlFind(p)
  \/ \E p \in Procs : RlEnsure(p)
  \/ \E p \in Procs : RlConsume(p)
  \/ \E p \in Procs : RlReturn(p)
  \/ RlTick

RlNextConcurrent ==
  \/ \E p \in Procs : RlFind(p)
  \/ \E p \in Procs : RlEnsure(p)
  \/ \E p \in Procs : RlConsume(p)
  \/ RlTick

SpecRateSerial == RlInitSerial /\ [][RlNext]_vars

SpecRateConcurrent == RlInitConcurrent /\ [][RlNextConcurrent]_vars

----------------------------------------------------------------------------
(* Claims about the rate limiter *)

(* The allowed calls that fall in the 60 s window ending at resetAt. *)
RlWindowAllowed(resetAt) ==
  Cardinality({i \in 1 .. Len(hist.allowedAt) :
                 /\ resetAt - windowMs <= hist.allowedAt[i]
                 /\ hist.allowedAt[i] < resetAt})

RlReturned(p) == pc[p] = "rl_done" /\ loc[p].op = "rateLimit"

(* C1: with the calls handled one after another, a call that finds its
   window unexpired and already holding L allowed calls is denied; a call
   made at or after the window's resetAt is allowed and leaves the row with
   count 1 and resetAt 60 s after the call. *)
C1_WindowCorrect ==
  \A p \in Procs :
    RlReturned(p) /\ loc[p].found # NoRow =>
      LET l == loc[p]
          w == l.found.resetAt
          prior == RlWindowAllowed(w)
                     - (IF "allowed" \in DOMAIN l.res /\ l.res.allowed
                        THEN 1 ELSE 0)
      IN  /\ (l.now < w /\ prior = l.limit) => l.res = RlDenied(l.found)
          /\ l.now >= w =>
               /\ l.res.allowed
               /\ rateLimits[l.key].count = 1
               /\ rateLimits[l.key].resetAt = l.now + windowMs

(* C1 witness: a call at or after resetAt was allowed and restarted the
   window, after an earlier call had been denied in a full window. *)
C1_Witness ==
  \E p \in Procs :
    /\ RlReturned(p)
    /\ loc[p].found # NoRow
    /\ loc[p].now >= loc[p].found.resetAt
    /\ loc[p].res.allowed
    /\ hist.denied > 0

RlAllReturned == \A p \in Procs : RlReturned(p)

RlResults(flag) ==
  Cardinality({p \in Procs : "allowed" \in DOMAIN loc[p].res
                              /\ loc[p].res.allowed = flag})

(* C2: N overlapping calls in one unexpired window that has room for fewer
   than N of them: exactly as many are allowed as the window has room for,
   the others are denied, and the stored count ends at the limit. *)
C2_ConcurrentExact ==
  (/\ RlAllReturned
   /\ hist.start = "open"
   /\ ticks = 0
   /\ NumProcs > limit - hist.prior) =>
     /\ RlResults(TRUE) = limit - hist.prior
     /\ RlResults(FALSE) = NumProcs - (limit - hist.prior)
     /\ rateLimits[RlKey].count = limit

----------------------------------------------------------------------------
(* Token-issuance throttle: checkTokenRequestThrottle(sessionId) *)

ThKey == <<"s1", "token">>

ThNewRow(t) ==
  [count |-> 1, resetAt |-> t + TOKEN_REQUEST_WINDOW_MS, updatedAt |-> t]

ThResetRow(row, t) ==
  [row EXCEPT !.count = 1, !.resetAt = t + TOKEN_REQUEST_WINDOW_MS,
              !.updatedAt = t]

ThIncrementRow(row, t) == [row EXCEPT !.count = @ + 1, !.updatedAt = t]

(* line 79: the time since the window row was created or last reset *)
ThTimeSinceLastRequest(rec, t) ==
  t - (rec.resetAt - TOKEN_REQUEST_WINDOW_MS)

ThRetryAfter(rec, t) ==
  CeilDiv(TOKEN_REQUEST_MIN_INTERVAL_MS - ThTimeSinceLastRequest(rec, t), 1000)

ThAllowed == [allowed |-> TRUE, retryAfter |-> 0]

ThDenied(rec, t) == [allowed |-> FALSE, retryAfter |-> ThRetryAfter(rec, t)]

(* line 18, the findUnique of lines 22-29 and the denial of lines 78-87,
   which issues no store operation *)
ThFind(p) ==
  /\ MayStart(p)
  /\ hist.calls < MaxCalls
  /\ LET rec == rateLimits[ThKey]
         deny == /\ rec # NoRow
                 /\ ~(rec.resetAt <= now)
                 /\ ThTimeSinceLastRequest(rec, now)
                      < TOKEN_REQUEST_MIN_INTERVAL_MS
     IN  /\ loc' = [loc EXCEPT ![p] =
                      [op |-> "tokenThrottle", key |-> ThKey, now |-> now,
                       found |-> rec,
                       res |-> IF deny THEN ThDenied(rec, now)
                               ELSE [pending |-> TRUE]]]
         /\ pc' = [pc EXCEPT ![p] = IF deny THEN "th_done" ELSE "th_write"]
         /\ hist' = [hist EXCEPT !.calls = @ + 1,
                                 !.denied = IF deny THEN @ + 1 ELSE @]
  /\ UNCHANGED <<now, ticks, mode, storeFaults, requestFingerprints, limit,
                 rateLimits, sessionLimits, costTracking, usageLog, users>>

(* the create of lines 31-51, the reset of lines 55-76 or the increment of
   lines 89-106: each allows the request *)
ThWrite(p) ==
  /\ pc[p] = "th_write"
  /\ LET l == loc[p] IN
       IF l.found = NoRow /\ rateLimits[l.key] # NoRow
       THEN \* unique index on (identifier, endpoint): the create throws
            /\ loc' = [loc EXCEPT ![p].res = [error |-> "unique"]]
            /\ UNCHANGED <<rateLimits, hist>>
       ELSE /\ rateLimits' = [rateLimits EXCEPT ![l.key] =
                 IF l.found = NoRow THEN ThNewRow(l.now)
                 ELSE IF l.found.resetAt <= l.now THEN ThResetRow(@, l.now)
                 ELSE ThIncrementRow(@, l.now)]
            /\ loc' = [loc EXCEPT ![p].res = ThAllowed]
            /\ hist' = [hist EXCEPT !.allowedAt = Append(@, l.now)]
  /\ pc' = [pc EXCEPT ![p] = "th_done"]
  /\ UNCHANGED <<now, ticks, mode, storeFaults, requestFingerprints, limit,
                 sessionLimits, costTracking, usageLog, users>>

ThReturn(p) ==
  /\ pc[p] = "th_done"
  /\ pc' = [pc EXCEPT ![p] = "idle"]
  /\ loc' = [loc EXCEPT ![p] = Idle]
  /\ UNCHANGED <<now, ticks, mode, storeFaults, requestFingerprints, limit,
                 rateLimits, sessionLimits, costTracking, usageLog, users,
                 hist>>

ThDeltas ==
  {1, TOKEN_REQUEST_MIN_INTERVAL_MS - 1, TOKEN_REQUEST_MIN_INTERVAL_MS,
   TOKEN_REQUEST_WINDOW_MS}

ThTick ==
  /\ Advance(ThDeltas)
  /\ UNCHANGED <<mode, storeFaults, requestFingerprints, limit, rateLimits,
                 sessionLimits, costTracking, usageLog, users, pc, loc, hist>>

ThInit ==
  /\ RlInitCommon("serial")
  /\ now = 0
  /\ rateLimits = EmptyTable({ThKey})
  /\ hist = RlHist("absent", 0, 0)

ThNext ==
  \/ \E p \in Procs : ThFind(p)
  \/ \E p \in Procs : ThWrite(p)
  \/ \E p \in Procs : ThReturn(p)
  \/ ThTick

SpecThrottle == ThInit /\ [][ThNext]_vars

(* The allowed issuances before the call that handler p has just finished. *)
ThEarlierAllowed(p) ==
  IF "allowed" \in DOMAIN loc[p].res /\ loc[p].res.allowed
  THEN SubSeq(hist.allowedAt, 1, Len(hist.allowedAt) - 1)
  ELSE hist.allowedAt

(* C5: a call made less than 5 s after the session's most recent allowed
   issuance is denied, with retryAfter the remaining wait rounded up to whole
   seconds; so no two allowed issuances are less than 5 s apart. *)
C5_MinInterval ==
  /\ \A p \in Procs :
       pc[p] = "th_done" /\ ThEarlierAllowed(p) # <<>> =>
         LET last == ThEarlierAllowed(p)[Len(ThEarlierAllowed(p))]
             since == loc[p].now - last
         IN  since < TOKEN_REQUEST_MIN_INTERVAL_MS =>
               loc[p].res =
                 [allowed |-> FALSE,
                  retryAfter |->
                    CeilDiv(TOKEN_REQUEST_MIN_INTERVAL_MS - since, 1000)]
  /\ \A i \in 1 .. Len(hist.allowedAt) - 1 :
       hist.allowedAt[i + 1] - hist.allowedAt[i]
         >= TOKEN_REQUEST_MIN_INTERVAL_MS

----------------------------------------------------------------------------
(* Daily quota manager: checkDailyLimit(sessionId, userId) *)

(* A rounding up to midnight that leaves a midnight where it is. *)
getNextMidnightUTC_Ceil(t) == ((t + msPerDay - 1) \div msPerDay) * msPerDay

(* new Date().setUTCHours(24, 0, 0, 0): the start of the next UTC day *)
getNextMidnightUTC(t) == ((t \div msPerDay) + 1) * msPerDay

(* The rows findMany({where: {userId}, orderBy: lastUsedAt desc}) may put
   first: the order among equal lastUsedAt is the store's choice. *)
DlUserRows(tbl, userId) ==
  {k \in DOMAIN tbl : tbl[k] # NoRow /\ tbl[k].userId = userId}

DlMostRecent(tbl, userId) ==
  {k \in DlUserRows(tbl, userId) :
     \A j \in DlUserRows(tbl, userId) : tbl[j].lastUsedAt <= tbl[k].lastUsedAt}

(* lines 20-39: the keys of the rows the lookup may return; none when the
   set is empty *)
DlLookup(tbl, id) ==
  IF id.userId # NoUser THEN DlMostRecent(tbl, id.userId)
  ELSE IF tbl[id.sessionId] # NoRow THEN {id.sessionId} ELSE {}

DlNewRow(id, t) ==
  [userId |-> id.userId, dailyUsageCount |-> 0,
   dailyUsageResetAt |-> getNextMidnightUTC(t), lastUsedAt |-> t,
   isBlocked |-> FALSE, blockedUntil |-> NullTime]

(* lines 60-74 *)
DlTier(usr) == IF usr = NoRow THEN "free" ELSE usr.subscriptionTier

DlStatus(usr) == IF usr = NoRow THEN "free" ELSE usr.subscriptionStatus

(* a limit that looks at the tier and not at the status *)
DlDailyLimit_TierOnly(usr) ==
  IF DlTier(usr) = "paid" THEN PAID_DAILY_LIMIT ELSE FREE_DAILY_LIMIT

DlDailyLimit(usr) ==
  IF DlTier(usr) = "paid" /\ DlStatus(usr) = "active"
  THEN PAID_DAILY_LIMIT ELSE FREE_DAILY_LIMIT

DlNeedsReset(rec, t) == rec.dailyUsageResetAt <= t

DlResetRow(row, t) ==
  [row EXCEPT !.dailyUsageCount = 1,
              !.dailyUsageResetAt = getNextMidnightUTC(t),
              !.lastUsedAt = t]

DlIncrementRow(row, t) ==
  [row EXCEPT !.dailyUsageCount = @ + 1, !.lastUsedAt = t]

DlLimitExceeded_OffByOne(rec, lim) ==
  lim # PAID_DAILY_LIMIT /\ rec.dailyUsageCount > lim

DlLimitExceeded(rec, lim) ==
  lim # PAID_DAILY_LIMIT /\ rec.dailyUsageCount >= lim

DlResetResult(row, lim, tier) ==
  [allowed |-> TRUE,
   remaining |-> IF lim = PAID_DAILY_LIMIT THEN PAID_DAILY_LIMIT ELSE lim - 1,
   used |-> IF lim = PAID_DAILY_LIMIT THEN 0 ELSE 1,
   limit |-> lim, resetAt |-> row.dailyUsageResetAt, tier |-> tier]

DlDeniedResult(rec, lim, tier) ==
  [allowed |-> FALSE, remaining |-> 0, used |-> rec.dailyUsageCount,
   limit |-> lim, resetAt |-> rec.dailyUsageResetAt, tier |-> tier]

DlAllowedResult(row, lim, tier) ==
  [allowed |-> TRUE,
   remaining |-> IF lim = PAID_DAILY_LIMIT THEN PAID_DAILY_LIMIT
                 ELSE lim - row.dailyUsageCount,
   used |-> IF lim = PAID_DAILY_LIMIT THEN 0 ELSE row.dailyUsageCount,
   limit |-> lim, resetAt |-> row.dailyUsageResetAt, tier |-> tier]

(* The identities of the requests: an anonymous client, and one user seen
   under two sessions. *)
AnonIdentity(ip) == [sessionId |-> "anon_" \o ip, userId |-> NoUser]

DlIdentities ==
  {AnonIdentity("ip1"),
   [sessionId |-> "sA", userId |-> "u1"],
   [sessionId |-> "sB", userId |-> "u1"]}

SessionIds == {id.sessionId : id \in DlIdentities}

(* the lookup of lines 18-39 *)
DlFind(p) ==
  /\ MayStart(p)
  /\ hist.calls < MaxCalls
  /\ hist' = [hist EXCEPT !.calls = @ + 1]
  /\ \E id \in DlIdentities :
       LET hits == DlLookup(sessionLimits, id) IN
       \E k \in IF hits = {} THEN {"none"} ELSE hits :
         /\ loc' = [loc EXCEPT ![p] =
                      [op |-> "dailyLimit", id |-> id, key |-> k,
                       rec |-> IF k = "none" THEN NoRow ELSE sessionLimits[k],
                       usr |-> NoRow, now |-> NullTime,
                       res |-> [pending |-> TRUE]]]
         /\ pc' = [pc EXCEPT ![p] =
                      IF k = "none" THEN "dl_create"
                      ELSE IF id.userId # NoUser THEN "dl_user"
                      ELSE "dl_decide"]
  /\ UNCHANGED <<now, ticks, mode, storeFaults, requestFingerprints, limit,
                 rateLimits, sessionLimits, costTracking, usageLog, users>>

(* the create of lines 41-57 *)
DlCreate(p) ==
  /\ pc[p] = "dl_create"
  /\ LET l == loc[p] IN
       IF sessionLimits[l.id.sessionId] # NoRow
       THEN \* unique index on sessionId: the create throws
            /\ loc' = [loc EXCEPT ![p].res = [error |-> "unique"]]
            /\ pc' = [pc EXCEPT ![p] = "dl_done"]
            /\ UNCHANGED sessionLimits
       ELSE /\ sessionLimits' = [sessionLimits EXCEPT
                                   ![l.id.sessionId] = DlNewRow(l.id, now)]
            /\ loc' = [loc EXCEPT ![p].key = l.id.sessionId,
                                  ![p].rec = DlNewRow(l.id, now)]
            /\ pc' = [pc EXCEPT ![p] =
                         IF l.id.userId # NoUser THEN "dl_user"
                         ELSE "dl_decide"]
  /\ UNCHANGED <<now, ticks, mode, storeFaults, requestFingerprints, limit,
                 rateLimits, costTracking, usageLog, users, hist>>

(* the user.findUnique of lines 62-71 *)
DlUser(p) ==
  /\ pc[p] = "dl_user"
  /\ loc' = [loc EXCEPT ![p].usr = users[loc[p].id.userId]]
  /\ pc' = [pc EXCEPT ![p] = "dl_decide"]
  /\ UNCHANGED <<now, ticks, mode, storeFaults, requestFingerprints, limit,
                 rateLimits, sessionLimits, costTracking, usageLog, users,
                 hist>>

(* lines 76-144: Date.now(), then the reset update, the denial or the
   increment update *)
DlDecide(p) ==
  /\ pc[p] = "dl_decide"
  /\ LET l == loc[p]
         lim == DlDailyLimit(l.usr)
         tier == DlTier(l.usr)
     IN  IF DlNeedsReset(l.rec, now)
         THEN LET row == DlResetRow(sessionLimits[l.key], now) IN
              /\ sessionLimits' = [sessionLimits EXCEPT ![l.key] = row]
              /\ loc' = [loc EXCEPT ![p].res = DlResetResult(row, lim, tier),
                                    ![p].now = now]
         ELSE IF DlLimitExceeded(l.rec, lim)
         THEN /\ loc' = [loc EXCEPT
                           ![p].res = DlDeniedResult(l.rec, lim, tier),
                           ![p].now = now]
              /\ UNCHANGED sessionLimits
         ELSE LET row == DlIncrementRow(sessionLimits[l.key], now) IN
              /\ sessionLimits' = [sessionLimits EXCEPT ![l.key] = row]
              /\ loc' = [loc EXCEPT
                           ![p].res = DlAllowedResult(row, lim, tier),
                           ![p].now = now]
  /\ pc' = [pc EXCEPT ![p] = "dl_done"]
  /\ UNCHANGED <<now, ticks, mode, storeFaults, requestFingerprints, limit,
                 rateLimits, costTracking, usageLog, users, hist>>

DlReturn(p) ==
  /\ pc[p] = "dl_done"
  /\ mode = "serial"
  /\ pc' = [pc EXCEPT ![p] = "idle"]
  /\ loc' = [loc EXCEPT ![p] = Idle]
  /\ UNCHANGED <<now, ticks, mode, storeFaults, requestFingerprints, limit,
                 rateLimits, sessionLimits, costTracking, usageLog, users,
                 hist>>

DlDeltas == {1, msPerDay - 1}

DlTick ==
  /\ Advance(DlDeltas)
  /\ UNCHANGED <<mode, storeFaults, requestFingerprints, limit, rateLimits,
                 sessionLimits, costTracking, usageLog, users, pc, loc, hist>>

(* The subscriptions updateSubscriptionStatus can leave a user with. *)
Subscriptions ==
  {[subscriptionTier |-> "free", subscriptionStatus |-> "free"],
   [subscriptionTier |-> "paid", subscriptionStatus |-> "active"],
   [subscriptionTier |-> "free", subscriptionStatus |-> "canceled"]}

(* The row of an identity after c allowed requests on the day of t0. *)
DlRowAfter(id, c, t0) == [DlNewRow(id, t0) EXCEPT !.dailyUsageCount = c]

(* The last millisecond of a UTC day.  Each identity has no row yet, or the
   row that FREE_DAILY_LIMIT - 1 allowed requests of this day left. *)
DlInit ==
  /\ ticks = 0
  /\ mode = "serial"
  /\ storeFaults = FALSE
  /\ requestFingerprints = <<>>
  /\ limit = 1
  /\ now = 2 * msPerDay - 1
  /\ rateLimits = <<>>
  /\ costTracking = <<>>
  /\ usageLog = <<>>
  /\ \E sub \in Subscriptions : users = [u \in {"u1"} |-> sub]
  /\ \E warm \in SUBSET {AnonIdentity("ip1"), [sessionId |-> "sA", userId |-> "u1"]} :
       sessionLimits =
         [k \in SessionIds |->
            IF \E id \in warm : id.sessionId = k
            THEN DlRowAfter(CHOOSE id \in warm : id.sessionId = k,
                            FREE_DAILY_LIMIT - 1, now - 1)
            ELSE NoRow]
  /\ pc = [p \in Procs |-> "idle"]
  /\ loc = [p \in Procs |-> Idle]
  /\ hist = RlHist("daily", 0, 0)

DlNext ==
  \/ \E p \in Procs : DlFind(p)
  \/ \E p \in Procs : DlCreate(p)
  \/ \E p \in Procs : DlUser(p)
  \/ \E p \in Procs : DlDecide(p)
  \/ \E p \in Procs : DlReturn(p)
  \/ DlTick

SpecDaily == DlInit /\ [][DlNext]_vars

(* C4: a checkDailyLimit that finds its record's dailyUsageResetAt at or
   before now leaves dailyUsageCount at exactly 1, whatever it was, sets
   dailyUsageResetAt to the first UTC midnight strictly after now (24 h on
   when now is a midnight) and returns allowed = TRUE. *)
C4_RolloverToOne ==
  \A p \in Procs :
    (/\ pc[p] = "dl_done"
     /\ loc[p].rec # NoRow
     /\ loc[p].rec.dailyUsageResetAt <= loc[p].now) =>
       LET l == loc[p]
           row == sessionLimits[l.key]
       IN  /\ l.res.allowed
           /\ row.dailyUsageCount = 1
           /\ row.dailyUsageResetAt % msPerDay = 0
           /\ row.dailyUsageResetAt > l.now
           /\ row.dailyUsageResetAt - msPerDay <= l.now
           /\ (l.now % msPerDay = 0 =>
                 row.dailyUsageResetAt = l.now + msPerDay)

(* C4 witness: a record that had reached the limit is rolled over by a call
   made exactly at midnight. *)
C4_Witness ==
  \E p \in Procs :
    /\ pc[p] = "dl_done"
    /\ loc[p].rec # NoRow
    /\ loc[p].rec.dailyUsageResetAt <= loc[p].now
    /\ loc[p].rec.dailyUsageCount = FREE_DAILY_LIMIT
    /\ loc[p].now % msPerDay = 0
    /\ sessionLimits[loc[p].key].dailyUsageCount = 1

----------------------------------------------------------------------------
(* Suspicious-activity scorer: checkSuspiciousActivity(sessionId, endpoint,
   ipAddress).  usageLog is kept in insertion order, which is timestamp
   order. *)

RECURSIVE SeqSum(_)
SeqSum(s) == IF s = <<>> THEN 0 ELSE Head(s) + SeqSum(Tail(s))

RECURSIVE SeqSumSq(_)
SeqSumSq(s) == IF s = <<>> THEN 0 ELSE Head(s) * Head(s) + SeqSumSq(Tail(s))

Min(a, b) == IF a < b THEN a ELSE b

(* lines 29-45: the session's records of the last hour, newest first, at
   most 20 *)
ScRecentRequests(log, sessionId, t) ==
  LET s == SelectSeq(log, LAMBDA r : r.sessionId = sessionId
                                     /\ r.timestamp > t - msPerHour)
      m == Min(20, Len(s))
  IN  [i \in 1 .. m |-> s[Len(s) - i + 1]]

(* lines 69-74 *)
ScTimeDiffs(recent) ==
  [i \in 1 .. Min(10, Len(recent) - 1) |->
     recent[i].timestamp - recent[i + 1].timestamp]

(* stdDev < bound, for the stdDev of lines 77-79: with k values of sum S,
   variance = (k * sum of squares - S * S) / (k * k) *)
ScStdDevBelow(diffs, bound) ==
  LET k == Len(diffs) IN
  k * SeqSumSq(diffs) - SeqSum(diffs) * SeqSum(diffs) < bound * bound * k * k

(* avgTimeDiff < bound *)
ScAvgBelow(diffs, bound) == SeqSum(diffs) < bound * Len(diffs)

(* lines 83-90 *)
ScTimingPoints(diffs) ==
  IF ScAvgBelow(diffs, 1000) /\ ScStdDevBelow(diffs, 100) THEN 3
  ELSE IF ScAvgBelow(diffs, 2000) /\ ScStdDevBelow(diffs, 200) THEN 1
  ELSE 0

(* lines 93-97 *)
ScRapidRequests(diffs) == Cardinality({i \in DOMAIN diffs : diffs[i] < 200})

ScRapidPoints(diffs) == IF ScRapidRequests(diffs) >= 3 THEN 2 ELSE 0

(* lines 105-112 *)
ScRequestCount(log, sessionId, t) ==
  Len(SelectSeq(log, LAMBDA r : r.sessionId = sessionId
                                /\ r.timestamp > t - 5 * 60000))

(* lines 116-122 *)
ScVolumePoints(requestCount) ==
  IF requestCount > 50 THEN 2 ELSE IF requestCount > 30 THEN 1 ELSE 0

(* lines 126-139 *)
ScIpSessionCount(log, ipAddress, t) ==
  Cardinality({log[i].sessionId : i \in
                 {j \in DOMAIN log : log[j].ipAddress = ipAddress
                                     /\ log[j].timestamp > t - 5 * 60000}})

(* lines 142-148 *)
ScIpPoints(ipSessionCount) ==
  IF ipSessionCount > 20 THEN 3 ELSE IF ipSessionCount > 10 THEN 1 ELSE 0

(* a burst rule that does not look at the number of requests *)
ScBurstPoints_AnyCount(recent, requestCount, t) ==
  IF 10 * (t - recent[Len(recent)].timestamp) < msPerHour THEN 2 ELSE 0

(* lines 159-166: sessionDurationHours < 0.1 is sessionAge < 360000 ms *)
ScBurstPoints(recent, requestCount, t) ==
  IF 10 * (t - recent[Len(recent)].timestamp) < msPerHour /\ requestCount > 20
  THEN 2 ELSE 0

ScScore(log, sessionId, ipAddress, t) ==
  LET recent == ScRecentRequests(log, sessionId, t)
      diffs == ScTimeDiffs(recent)
      requestCount == ScRequestCount(log, sessionId, t)
  IN  ScTimingPoints(diffs) + ScRapidPoints(diffs)
      + ScVolumePoints(requestCount)
      + ScIpPoints(ScIpSessionCount(log, ipAddress, t))
      + ScBurstPoints(recent, requestCount, t)

NoSuspicion == [isSuspicious |-> FALSE, reason |-> "null", score |-> 0]

(* Only a session without any record is spared. *)
ScInGracePeriod_FirstOnly(recent) == Len(recent) = 0

(* A grace period shorter than the program's. *)
ScInGracePeriod_Short(recent) == Len(recent) < GRACE_REQUESTS - 2

(* lines 47-63 *)
ScInGracePeriod(recent) == Len(recent) < GRACE_REQUESTS

(* lines 86, 96, 118, 144 and 165: the descriptions pushed on reasons, in
   the order of the rules; the lesser tiers of a rule push none *)
ScReasons(log, sessionId, ipAddress, t) ==
  LET recent == ScRecentRequests(log, sessionId, t)
      diffs == ScTimeDiffs(recent)
      requestCount == ScRequestCount(log, sessionId, t)
      ipSessionCount == ScIpSessionCount(log, ipAddress, t)
  IN  (IF ScTimingPoints(diffs) = 3
       THEN <<"Extremely consistent request timing detected">> ELSE <<>>)
      \o (IF ScRapidPoints(diffs) = 2
          THEN <<ToString(ScRapidRequests(diffs))
                   \o " requests under 200ms apart">>
          ELSE <<>>)
      \o (IF ScVolumePoints(requestCount) = 2
          THEN <<"Very high request rate: " \o ToString(requestCount)
                   \o " in 5 minutes">>
          ELSE <<>>)
      \o (IF ScIpPoints(ipSessionCount) = 3
          THEN <<ToString(ipSessionCount)
                   \o " different sessions from same IP">>
          ELSE <<>>)
      \o (IF ScBurstPoints(recent, requestCount, t) = 2
          THEN <<"Short session with high activity">> ELSE <<>>)

(* reasons.join('; ') of line 174 *)
RECURSIVE ScJoin(_)
ScJoin(parts) ==
  IF parts = <<>> THEN ""
  ELSE IF Len(parts) = 1 THEN parts[1]
  ELSE parts[1] \o "; " \o ScJoin(Tail(parts))

(* lines 168-176; "null" stands for the null reason *)
checkSuspiciousActivity(log, sessionId, ipAddress, t) ==
  IF ScInGracePeriod(ScRecentRequests(log, sessionId, t)) THEN NoSuspicion
  ELSE LET score == ScScore(log, sessionId, ipAddress, t) IN
       [isSuspicious |-> score >= SUSPICIOUS_SCORE,
        reason |-> IF score >= SUSPICIOUS_SCORE
                   THEN ScJoin(ScReasons(log, sessionId, ipAddress, t))
                   ELSE "null",
        score |-> score]

(* logUsage of limits.js: one usage_logs row *)
LogRecord(id, endpoint, ipAddress, t, suspicious) ==
  [sessionId |-> id.sessionId, userId |-> id.userId, endpoint |-> endpoint,
   ipAddress |-> ipAddress, timestamp |-> t, suspicious |-> suspicious]

(* The scorer by itself: usage records are logged for two sessions of one
   IP address, the clock moves, and the scorer is called. *)

ScSessions == {"s1", "s2"}

ScLogged(log, sessionId) ==
  Len(SelectSeq(log, LAMBDA r : r.sessionId = sessionId))

(* a usage record is written: logUsage *)
ScLog(p) ==
  /\ MayStart(p)
  /\ Len(usageLog) < hist.prior + MaxLog
  /\ \E sid \in ScSessions :
       usageLog' = Append(usageLog,
                          LogRecord([sessionId |-> sid, userId |-> NoUser],
                                    "chat", "ip1", now, FALSE))
  /\ UNCHANGED <<now, ticks, mode, storeFaults, requestFingerprints, limit,
                 rateLimits, sessionLimits, costTracking, users, pc, loc,
                 hist>>

ScCheck(p) ==
  /\ MayStart(p)
  /\ \E sid \in ScSessions :
       loc' = [loc EXCEPT ![p] =
                 [op |-> "checkSuspiciousActivity", sessionId |-> sid,
                  now |-> now, logged |-> ScLogged(usageLog, sid),
                  res |-> checkSuspiciousActivity(usageLog, sid, "ip1", now)]]
  /\ pc' = [pc EXCEPT ![p] = "sc_done"]
  /\ UNCHANGED <<now, ticks, mode, storeFaults, requestFingerprints, limit,
                 rateLimits, sessionLimits, costTracking, usageLog, users,
                 hist>>

ScReturn(p) ==
  /\ pc[p] = "sc_done"
  /\ pc' = [pc EXCEPT ![p] = "idle"]
  /\ loc' = [loc EXCEPT ![p] = Idle]
  /\ UNCHANGED <<now, ticks, mode, storeFaults, requestFingerprints, limit,
                 rateLimits, sessionLimits, costTracking, usageLog, users,
                 hist>>

ScDeltas == {1, 5 * 60000}

ScTick ==
  /\ Advance(ScDeltas)
  /\ UNCHANGED <<mode, storeFaults, requestFingerprints, limit, rateLimits,
                 sessionLimits, costTracking, usageLog, users, pc, loc, hist>>

(* Records of n other sessions of the same IP address, all written at t. *)
ScCrowd(n, t) ==
  [i \in 1 .. n |->
     LogRecord([sessionId |-> "c" \o ToString(i), userId |-> NoUser],
               "chat", "ip1", t, FALSE)]

(* The log is empty, or holds the records of a crowd large enough for the
   top IP fan-out rule (more than 20 sessions). *)
ScInit ==
  /\ now = msPerHour
  /\ ticks = 0
  /\ mode = "serial"
  /\ storeFaults = FALSE
  /\ requestFingerprints = <<>>
  /\ limit = 1
  /\ rateLimits = <<>>
  /\ sessionLimits = <<>>
  /\ costTracking = <<>>
  /\ users = <<>>
  /\ \E n \in {0, 21} :
       /\ usageLog = ScCrowd(n, now)
       /\ hist = RlHist("scorer", n, now)
  /\ pc = [p \in Procs |-> "idle"]
  /\ loc = [p \in Procs |-> Idle]

(* The scorer only reads: one caller shows all it can return. *)
ScCallers == {1}

ScNext ==
  \/ \E p \in ScCallers : ScLog(p)
  \/ \E p \in ScCallers : ScCheck(p)
  \/ \E p \in ScCallers : ScReturn(p)
  \/ ScTick

SpecScorer == ScInit /\ [][ScNext]_vars

(* C10: checkSuspiciousActivity returns isSuspicious = FALSE, score 0 and a
   null reason whenever the session has fewer than 5 logged records,
   whatever their timestamps, the 5-minute volume and the number of sessions
   sharing the IP address. *)
C10_GracePeriod ==
  \A p \in Procs :
    (pc[p] = "sc_done" /\ loc[p].logged < 5) =>
      /\ loc[p].res.isSuspicious = FALSE
      /\ loc[p].res.score = 0
      /\ loc[p].res.reason = "null"

(* C10 witness: four records of the session written in the same millisecond,
   more than 20 sessions on the IP address, and a score of 0. *)
C10_Witness ==
  \E p \in Procs :
    /\ pc[p] = "sc_done"
    /\ loc[p].logged = 4
    /\ \A i \in DOMAIN usageLog :
         usageLog[i].sessionId = loc[p].sessionId =>
           usageLog[i].timestamp = loc[p].now
    /\ ScIpSessionCount(usageLog, "ip1", loc[p].now) > 20
    /\ loc[p].res.score = 0

(* The scorer does flag a session once the grace period is over. *)
ScFlagged ==
  \E p \in Procs : pc[p] = "sc_done" /\ loc[p].res.isSuspicious

----------------------------------------------------------------------------
(* Cost governor: trackCost and checkCostLimits.  Costs are whole dollars;
   the ledger key is the UTC date, new Date().toISOString().split('T')[0]. *)

UtcDate(t) == t \div msPerDay

TcNewRow(cost, tokens) ==
  [totalCost |-> cost, requestCount |-> 1, tokenCount |-> tokens]

TcIncrementRow(row, cost, tokens) ==
  [row EXCEPT !.totalCost = @ + cost, !.requestCount = @ + 1,
              !.tokenCount = @ + tokens]

(* dailyRecord?.totalCost || 0 *)
CcDailyCost(found) == IF found = NoRow THEN 0 ELSE found.totalCost

(* A ceiling that binds only when it is exceeded. *)
CcOverLimit_Strict(dailyCost) == dailyCost > DAILY_COST_LIMIT

CcOverLimit(dailyCost) == dailyCost >= DAILY_COST_LIMIT

CcDenied(dailyCost) ==
  [allowed |-> FALSE, dailyCost |-> dailyCost, limit |-> DAILY_COST_LIMIT,
   reason |-> "Daily cost limit exceeded"]

CcAllowed(dailyCost, reason) ==
  [allowed |-> TRUE, dailyCost |-> dailyCost, limit |-> DAILY_COST_LIMIT,
   reason |-> reason]

(* lines 114-120 *)
CcRecentRequests(log, t) ==
  Len(SelectSeq(log, LAMBDA r : r.timestamp > t - msPerHour))

(* trackCost, lines 46-52 *)
TcFind(p) ==
  /\ MayStart(p)
  /\ hist.calls < MaxCalls
  /\ hist' = [hist EXCEPT !.calls = @ + 1]
  /\ \E cost \in {1} :
       loc' = [loc EXCEPT ![p] =
                 [op |-> "trackCost", today |-> UtcDate(now), cost |-> cost,
                  tokens |-> 1000 * cost, found |-> costTracking[UtcDate(now)],
                  res |-> [pending |-> TRUE]]]
  /\ pc' = [pc EXCEPT ![p] = "tc_write"]
  /\ UNCHANGED <<now, ticks, mode, storeFaults, requestFingerprints, limit,
                 rateLimits, sessionLimits, costTracking, usageLog, users>>

(* trackCost, lines 54-78: create or increment; an error is swallowed *)
TcWrite(p) ==
  /\ pc[p] = "tc_write"
  /\ LET l == loc[p] IN
       IF l.found = NoRow /\ costTracking[l.today] # NoRow
       THEN \* unique index on date: the create throws
            /\ loc' = [loc EXCEPT ![p].res = [swallowed |-> "unique"]]
            /\ UNCHANGED costTracking
       ELSE /\ costTracking' =
                 [costTracking EXCEPT ![l.today] =
                    IF l.found = NoRow THEN TcNewRow(l.cost, l.tokens)
                    ELSE TcIncrementRow(@, l.cost, l.tokens)]
            /\ loc' = [loc EXCEPT ![p].res = [tracked |-> TRUE]]
  /\ pc' = [pc EXCEPT ![p] = "tc_done"]
  /\ UNCHANGED <<now, ticks, mode, storeFaults, requestFingerprints, limit,
                 rateLimits, sessionLimits, usageLog, users, hist>>

TcReturn(p) ==
  /\ pc[p] = "tc_done"
  /\ pc' = [pc EXCEPT ![p] = "idle"]
  /\ loc' = [loc EXCEPT ![p] = Idle]
  /\ UNCHANGED <<now, ticks, mode, storeFaults, requestFingerprints, limit,
                 rateLimits, sessionLimits, costTracking, usageLog, users,
                 hist>>

(* checkCostLimits, lines 86-88: today and oneHourAgo are computed.  capped
   notes whether the ledger of today was at the ceiling when the call was
   made. *)
CcStart(p) ==
  /\ MayStart(p)
  /\ hist.calls < MaxCalls
  /\ hist' = [hist EXCEPT !.calls = @ + 1]
  /\ loc' = [loc EXCEPT ![p] =
               [op |-> "checkCostLimits", today |-> UtcDate(now), now |-> now,
                capped |-> CcDailyCost(costTracking[UtcDate(now)])
                             >= DAILY_COST_LIMIT,
                found |-> NoRow, res |-> [pending |-> TRUE]]]
  /\ pc' = [pc EXCEPT ![p] = "cc_read"]
  /\ UNCHANGED <<now, ticks, mode, storeFaults, requestFingerprints, limit,
                 rateLimits, sessionLimits, costTracking, usageLog, users>>

(* lines 92-112 and 133-138 *)
CcRead(p) ==
  /\ pc[p] = "cc_read"
  /\ LET found == costTracking[loc[p].today]
         dailyCost == CcDailyCost(found)
     IN  /\ loc' = [loc EXCEPT
                      ![p].found = found,
                      ![p].res = IF CcOverLimit(dailyCost)
                                 THEN CcDenied(dailyCost)
                                 ELSE CcAllowed(dailyCost, "null")]
         /\ pc' = [pc EXCEPT ![p] =
                     IF ~CcOverLimit(dailyCost)
                        /\ dailyCost > HOURLY_COST_LIMIT * 2
                     THEN "cc_count" ELSE "cc_done"]
         /\ hist' = [hist EXCEPT !.denied =
                       IF CcOverLimit(dailyCost) THEN @ + 1 ELSE @]
  /\ UNCHANGED <<now, ticks, mode, storeFaults, requestFingerprints, limit,
                 rateLimits, sessionLimits, costTracking, usageLog, users>>

(* lines 114-131 *)
CcCount(p) ==
  /\ pc[p] = "cc_count"
  /\ loc' = [loc EXCEPT ![p].res =
               IF CcRecentRequests(usageLog, loc[p].now) > 100
               THEN CcAllowed(@.dailyCost, "High recent activity detected")
               ELSE @]
  /\ pc' = [pc EXCEPT ![p] = "cc_done"]
  /\ UNCHANGED <<now, ticks, mode, storeFaults, requestFingerprints, limit,
                 rateLimits, sessionLimits, costTracking, usageLog, users,
                 hist>>

CcReturn(p) ==
  /\ pc[p] = "cc_done"
  /\ pc' = [pc EXCEPT ![p] = "idle"]
  /\ loc' = [loc EXCEPT ![p] = Idle]
  /\ UNCHANGED <<now, ticks, mode, storeFaults, requestFingerprints, limit,
                 rateLimits, sessionLimits, costTracking, usageLog, users,
                 hist>>

CostDeltas == {msPerDay}

CostTick ==
  /\ Advance(CostDeltas)
  /\ UNCHANGED <<mode, storeFaults, requestFingerprints, limit, rateLimits,
                 sessionLimits, costTracking, usageLog, users, pc, loc, hist>>

(* The UTC dates a run can see. *)
LedgerDates == 0 .. MaxTicks + 2

(* The last millisecond of a UTC day whose ledger row is absent or one dollar
   below the ceiling; overlapping calls. *)
CostInit ==
  /\ now = 2 * msPerDay - 1
  /\ ticks = 0
  /\ mode = "concurrent"
  /\ storeFaults = FALSE
  /\ requestFingerprints = <<>>
  /\ limit = 1
  /\ rateLimits = <<>>
  /\ sessionLimits = <<>>
  /\ usageLog = <<>>
  /\ users = <<>>
  /\ \E spent \in {0, DAILY_COST_LIMIT - 1} :
       costTracking =
         [d \in LedgerDates |->
            IF d = UtcDate(now) /\ spent > 0
            THEN [totalCost |-> spent, requestCount |-> spent,
                  tokenCount |-> 1000 * spent]
            ELSE NoRow]
  /\ pc = [p \in Procs |-> "idle"]
  /\ loc = [p \in Procs |-> Idle]
  /\ hist = RlHist("cost", 0, 0)

CostNext ==
  \/ \E p \in Procs : TcFind(p)
  \/ \E p \in Procs : TcWrite(p)
  \/ \E p \in Procs : TcReturn(p)
  \/ \E p \in Procs : CcStart(p)
  \/ \E p \in Procs : CcRead(p)
  \/ \E p \in Procs : CcCount(p)
  \/ \E p \in Procs : CcReturn(p)
  \/ CostTick

SpecCost == CostInit /\ [][CostNext]_vars

(* C6: a checkCostLimits call made when the ledger of the current UTC day is
   at or above the daily ceiling returns allowed = FALSE, whatever trackCost
   and checkCostLimits calls overlap it or came before it; a call that finds
   no ledger row for its date returns allowed = TRUE. *)
C6_CeilingHolds ==
  \A p \in Procs :
    pc[p] = "cc_done" =>
      /\ loc[p].capped => ~loc[p].res.allowed
      /\ loc[p].found = NoRow => loc[p].res.allowed

(* C6 witness: after a denial on a day whose ledger reached the ceiling, a
   call of the next UTC day finds no row and is allowed. *)
C6_Witness ==
  \E p \in Procs :
    /\ pc[p] = "cc_done"
    /\ loc[p].found = NoRow
    /\ loc[p].res.allowed
    /\ hist.denied > 0
    /\ CcDailyCost(costTracking[loc[p].today - 1]) >= DAILY_COST_LIMIT

----------------------------------------------------------------------------
(* Session block registry: checkBlocked of blocking.js and blockSession of
   heuristics.js *)

NotBlocked == [isBlocked |-> FALSE, blockedUntil |-> NullTime]

(* blocking.js lines 30-36 *)
BlClearRow(row) == [row EXCEPT !.isBlocked = FALSE, !.blockedUntil = NullTime]

(* a block that still holds at its until time *)
BlExpired_Late(row, t) == row.blockedUntil < t

(* blocking.js line 28 *)
BlExpired(row, t) == row.blockedUntil <= t

(* blocking.js lines 19-25 *)
BlNoBlock(row) ==
  row = NoRow \/ ~row.isBlocked \/ row.blockedUntil = NullTime

(* checkBlocked as one call at time t: the table it leaves and its result *)
checkBlocked(tbl, sessionId, t) ==
  LET row == tbl[sessionId] IN
  IF row = NoRow THEN [tbl |-> tbl, res |-> NotBlocked]
  ELSE IF ~row.isBlocked \/ row.blockedUntil = NullTime
  THEN [tbl |-> tbl, res |-> NotBlocked]
  ELSE IF BlExpired(row, t)
  THEN [tbl |-> [tbl EXCEPT ![sessionId] = BlClearRow(row)],
        res |-> NotBlocked]
  ELSE [tbl |-> tbl,
        res |-> [isBlocked |-> TRUE, blockedUntil |-> row.blockedUntil]]

(* heuristics.js line 186, with a duration that is not looked at *)
BlBlockedUntil_Default(t, durationMs) == t + BLOCK_DURATION_MS

(* heuristics.js line 186 *)
BlBlockedUntil(t, durationMs) == t + durationMs

(* heuristics.js lines 189-195 *)
BlBlockRow(row, until) ==
  [row EXCEPT !.isBlocked = TRUE, !.blockedUntil = until]

(* heuristics.js lines 201-212: the record created when the session has none *)
BlPlaceholderRow(t, until) ==
  [userId |-> NoUser, dailyUsageCount |-> 0, dailyUsageResetAt |-> t,
   lastUsedAt |-> t, isBlocked |-> TRUE, blockedUntil |-> until]

(* blockSession as one call at time t *)
blockSession(tbl, sessionId, durationMs, t) ==
  LET blockedUntil == BlBlockedUntil(t, durationMs) IN
  [tbl EXCEPT ![sessionId] =
     IF @ = NoRow THEN BlPlaceholderRow(t, blockedUntil)
     ELSE BlBlockRow(@, blockedUntil)]

----------------------------------------------------------------------------
(* The guards as whole calls, made of the same steps as above, for handlers
   that run one after another: the table a call leaves and its result. *)

rateLimit(tbl, identifier, lim, endpoint, t) ==
  LET key == <<identifier, endpoint>>
      found == tbl[key]
      rec == IF found = NoRow THEN RlNewRow(t)
             ELSE IF RlExpired(found, t) THEN RlResetRow(found, t)
             ELSE found
  IN  IF RlLimitExceeded(rec, lim)
      THEN [tbl |-> [tbl EXCEPT ![key] = rec], res |-> RlDenied(rec)]
      ELSE [tbl |-> [tbl EXCEPT ![key] = RlIncrementRow(rec, t)],
            res |-> RlAllowed(RlIncrementRow(rec, t), lim)]

(* a throttle whose denial restarts the window of the session *)
checkTokenRequestThrottle_DenialRestarts(tbl, sessionId, t) ==
  LET key == <<sessionId, "token">>
      record == tbl[key]
  IN  IF record = NoRow
      THEN [tbl |-> [tbl EXCEPT ![key] = ThNewRow(t)], res |-> ThAllowed]
      ELSE IF record.resetAt <= t
      THEN [tbl |-> [tbl EXCEPT ![key] = ThResetRow(record, t)],
            res |-> ThAllowed]
      ELSE IF ThTimeSinceLastRequest(record, t) < TOKEN_REQUEST_MIN_INTERVAL_MS
      THEN [tbl |-> [tbl EXCEPT ![key] = ThResetRow(record, t)],
            res |-> ThDenied(record, t)]
      ELSE [tbl |-> [tbl EXCEPT ![key] = ThIncrementRow(record, t)],
            res |-> ThAllowed]

checkTokenRequestThrottle(tbl, sessionId, t) ==
  LET key == <<sessionId, "token">>
      record == tbl[key]
  IN  IF record = NoRow
      THEN [tbl |-> [tbl EXCEPT ![key] = ThNewRow(t)], res |-> ThAllowed]
      ELSE IF record.resetAt <= t
      THEN [tbl |-> [tbl EXCEPT ![key] = ThResetRow(record, t)],
            res |-> ThAllowed]
      ELSE IF ThTimeSinceLastRequest(record, t) < TOKEN_REQUEST_MIN_INTERVAL_MS
      THEN [tbl |-> tbl, res |-> ThDenied(record, t)]
      ELSE [tbl |-> [tbl EXCEPT ![key] = ThIncrementRow(record, t)],
            res |-> ThAllowed]

(* limits.js lines 59-144 on the record with key k *)
DlDecision(tbl, usrs, id, k, t) ==
  LET usr == IF id.userId # NoUser THEN usrs[id.userId] ELSE NoRow
      lim == DlDailyLimit(usr)
      tier == DlTier(usr)
      rec == tbl[k]
  IN  IF DlNeedsReset(rec, t)
      THEN [tbl |-> [tbl EXCEPT ![k] = DlResetRow(rec, t)],
            res |-> DlResetResult(DlResetRow(rec, t), lim, tier)]
      ELSE IF DlLimitExceeded(rec, lim)
      THEN [tbl |-> tbl, res |-> DlDeniedResult(rec, lim, tier)]
      ELSE [tbl |-> [tbl EXCEPT ![k] = DlIncrementRow(rec, t)],
            res |-> DlAllowedResult(DlIncrementRow(rec, t), lim, tier)]

(* checkDailyLimit as one call at time t: the outcomes it can have (one for
   each record the lookup may return first) *)
checkDailyLimit(tbl, usrs, id, t) ==
  LET hits == DlLookup(tbl, id) IN
  IF hits # {} THEN {DlDecision(tbl, usrs, id, k, t) : k \in hits}
  ELSE IF tbl[id.sessionId] # NoRow
  THEN {[tbl |-> tbl, res |-> [error |-> "unique"]]}
  ELSE {DlDecision([tbl EXCEPT ![id.sessionId] = DlNewRow(id, t)],
                   usrs, id, id.sessionId, t)}

checkCostLimits(ledger, log, t) ==
  LET dailyCost == CcDailyCost(ledger[UtcDate(t)]) IN
  IF CcOverLimit(dailyCost) THEN CcDenied(dailyCost)
  ELSE IF dailyCost > HOURLY_COST_LIMIT * 2 /\ CcRecentRequests(log, t) > 100
  THEN CcAllowed(dailyCost, "High recent activity detected")
  ELSE CcAllowed(dailyCost, "null")

trackCost(ledger, cost, tokens, t) ==
  [ledger EXCEPT ![UtcDate(t)] =
     IF @ = NoRow THEN TcNewRow(cost, tokens)
     ELSE TcIncrementRow(@, cost, tokens)]

----------------------------------------------------------------------------
(* The route handlers: POST /api/chat, POST /api/realtime-token and
   POST /api/speech.  A request is the endpoint, the identity resolved from
   it and the client IP address. *)

Endpoints == {"chat", "realtime", "speech"}

(* The guards a route consults after the session block check, in the order
   of its code. *)
(* The chat route with its cost check after the rate limiter. *)
ChatGuards_CostLast == <<"daily", "rate", "cost">>

ChatGuards == <<"cost", "daily", "rate">>

(* The token route with its throttle before the daily quota. *)
RealtimeGuards_ThrottleFirst == <<"throttle", "daily", "rate">>

RealtimeGuards == <<"daily", "throttle", "rate">>

SpeechGuards == <<"daily", "rate">>

GuardsOf(endpoint) ==
  CASE endpoint = "chat" -> ChatGuards
    [] endpoint = "realtime" -> RealtimeGuards
    [] endpoint = "speech" -> SpeechGuards

RateLimitOf(endpoint) ==
  CASE endpoint = "chat" -> CHAT_LIMIT
    [] endpoint = "realtime" -> REALTIME_LIMIT
    [] endpoint = "speech" -> SPEECH_LIMIT

(* if (!session?.user): only a request without a user has its session
   checked for a block *)
BlockCheckOf(id) == IF id.userId = NoUser THEN <<"block">> ELSE <<>>

(* only the chat route calls trackCost *)
TrackingOf(endpoint) == IF endpoint = "chat" THEN <<"track">> ELSE <<>>

(* The stages of one request, each one awaited call of the handler. *)
StagesOf(endpoint, id) ==
  BlockCheckOf(id) \o GuardsOf(endpoint) \o <<"upstream">>
  \o TrackingOf(endpoint) \o <<"score">>

HConsulted(l, g, ok) ==
  [l EXCEPT !.trace = Append(@, [guard |-> g, allowed |-> ok])]

(* the handler goes on to its next stage, or returns a response *)
HAdvance(l) == [l EXCEPT !.next = @ + 1]

HRespond(l, status) == [l EXCEPT !.status = status]

(* A denial that does not end the request. *)
HAfterGuard_FallThrough(l, g, ok, status) == HAdvance(HConsulted(l, g, ok))

(* if (!result.allowed) return the rejection; otherwise go on *)
HAfterGuard(l, g, ok, status) ==
  IF ok THEN HAdvance(HConsulted(l, g, TRUE))
  ELSE HRespond(HConsulted(l, g, FALSE), status)

(* a 429 with no Retry-After header *)
HTooMany_NoHeader(l, g, ok, retryAfter) == HAfterGuard(l, g, ok, 429)

(* the 429 of a quota, throttle or rate-limit denial carries a Retry-After
   header, in seconds *)
HTooMany(l, g, ok, retryAfter) ==
  IF ok THEN HAfterGuard(l, g, TRUE, 429)
  ELSE [HAfterGuard(l, g, FALSE, 429) EXCEPT !.retryAfter = retryAfter]

(* Math.ceil((resetAt.getTime() - Date.now()) / 1000) *)
HSecondsUntil(resetAt, t) == CeilDiv(resetAt - t, 1000)

HPc(l) == IF l.status # 0 THEN "h_done" ELSE "h_" \o l.stages[l.next]

HAt(p, stage) == pc[p] = "h_" \o stage /\ loc[p].op = "request"

(* The quota identity of a request: the user, or the anonymous session. *)
QuotaKey(id) == IF id.userId # NoUser THEN id.userId ELSE id.sessionId

(* history: the allowed daily checks of an identity on the UTC date of t *)
AllowedToday(q, t) ==
  IF hist.quota[q].date = UtcDate(t) THEN hist.quota[q].n ELSE 0

(* the local variables of a handler when a request arrives *)
HFrame(endpoint, id, ip) ==
  [op |-> "request", endpoint |-> endpoint, id |-> id,
   ip |-> ip, arrived |-> now,
   stages |-> StagesOf(endpoint, id), next |-> 1,
   trace |-> <<>>, upstream |-> FALSE, status |-> 0,
   retryAfter |-> NullTime, failed |-> "none",
   daily |-> [pending |-> TRUE], allowedBefore |-> 0,
   rate0 |-> rateLimits, flagged |-> FALSE]

(* a request arrives: getSession and the session id of the request *)
HArrive(p) ==
  /\ MayStart(p)
  /\ hist.calls < MaxRequests
  /\ hist' = [hist EXCEPT !.calls = @ + 1]
  /\ \E endpoint \in Endpoints, id \in DlIdentities :
       /\ loc' = [loc EXCEPT ![p] = HFrame(endpoint, id, "ip1")]
       /\ pc' = [pc EXCEPT ![p] = HPc(HFrame(endpoint, id, "ip1"))]
  /\ UNCHANGED <<now, ticks, mode, storeFaults, requestFingerprints, limit,
                 rateLimits, sessionLimits, costTracking, usageLog, users>>

(* the session block check: 403 when blocked until later than now *)
HBlock(p) ==
  /\ HAt(p, "block")
  /\ LET l == loc[p]
         out == checkBlocked(sessionLimits, l.id.sessionId, now)
         blocked == /\ out.res.isBlocked
                    /\ out.res.blockedUntil # NullTime
                    /\ out.res.blockedUntil > now
         l2 == HAfterGuard(l, "block", ~blocked, 403)
     IN  /\ sessionLimits' = out.tbl
         /\ loc' = [loc EXCEPT ![p] = l2]
         /\ pc' = [pc EXCEPT ![p] = HPc(l2)]
  /\ UNCHANGED <<now, ticks, mode, storeFaults, requestFingerprints, limit,
                 rateLimits, costTracking, usageLog, users, hist>>

(* the cost governor: 503 when the ceiling is reached *)
HCost(p) ==
  /\ HAt(p, "cost")
  /\ LET l == loc[p]
         res == checkCostLimits(costTracking, usageLog, now)
         l2 == HAfterGuard(l, "cost", res.allowed, 503)
     IN  /\ loc' = [loc EXCEPT ![p] = l2]
         /\ pc' = [pc EXCEPT ![p] = HPc(l2)]
  /\ UNCHANGED <<now, ticks, mode, storeFaults, requestFingerprints, limit,
                 rateLimits, sessionLimits, costTracking, usageLog, users,
                 hist>>

(* the daily quota: 429 when denied; an error it throws is caught at the end
   of the handler, which answers 500 *)
HDaily(p) ==
  /\ HAt(p, "daily")
  /\ \E out \in checkDailyLimit(sessionLimits, users, loc[p].id, now) :
       LET l == [loc[p] EXCEPT
                   !.daily = out.res,
                   !.allowedBefore = AllowedToday(QuotaKey(loc[p].id), now)]
           failed == "error" \in DOMAIN out.res
           ok == ~failed /\ out.res.allowed
           l2 == IF failed THEN HRespond(l, 500)
                 ELSE HTooMany(l, "daily", ok,
                               HSecondsUntil(out.res.resetAt, now))
       IN  /\ sessionLimits' = out.tbl
           /\ loc' = [loc EXCEPT ![p] = l2]
           /\ pc' = [pc EXCEPT ![p] = HPc(l2)]
           /\ hist' = IF ok
                      THEN [hist EXCEPT !.quota[QuotaKey(l.id)] =
                              [date |-> UtcDate(now),
                               n |-> AllowedToday(QuotaKey(l.id), now) + 1]]
                      ELSE hist
  /\ UNCHANGED <<now, ticks, mode, storeFaults, requestFingerprints, limit,
                 rateLimits, costTracking, usageLog, users>>

(* the token throttle of the realtime-token route: 429 when denied *)
HThrottle(p) ==
  /\ HAt(p, "throttle")
  /\ LET l == loc[p]
         out == checkTokenRequestThrottle(rateLimits, l.id.sessionId, now)
         l2 == HTooMany(l, "throttle", out.res.allowed, out.res.retryAfter)
     IN  /\ rateLimits' = out.tbl
         /\ loc' = [loc EXCEPT ![p] = l2]
         /\ pc' = [pc EXCEPT ![p] = HPc(l2)]
  /\ UNCHANGED <<now, ticks, mode, storeFaults, requestFingerprints, limit,
                 sessionLimits, costTracking, usageLog, users, hist>>

(* the rate limiter, keyed by client IP and endpoint: 429 when denied *)
HRate(p) ==
  /\ HAt(p, "rate")
  /\ LET l == loc[p]
         out == rateLimit(rateLimits, l.ip, RateLimitOf(l.endpoint),
                          l.endpoint, now)
         l2 == HTooMany(l, "rate", out.res.allowed,
                        HSecondsUntil(out.res.resetAt, now))
     IN  /\ rateLimits' = out.tbl
         /\ loc' = [loc EXCEPT ![p] = l2]
         /\ pc' = [pc EXCEPT ![p] = HPc(l2)]
  /\ UNCHANGED <<now, ticks, mode, storeFaults, requestFingerprints, limit,
                 sessionLimits, costTracking, usageLog, users, hist>>

(* the request body is validated (400, or 413 on the token route) and the
   upstream API is called; an upstream error is answered with 500 *)
HUpstream(p) ==
  /\ HAt(p, "upstream")
  /\ \E outcome \in {"invalid", "ok", "error"} :
       LET l == loc[p]
           called == [HConsulted(l, "upstream", TRUE) EXCEPT
                        !.upstream = TRUE]
           l2 == CASE outcome = "invalid" ->
                        HRespond(l, IF l.endpoint = "realtime"
                                    THEN 413 ELSE 400)
                   [] outcome = "ok" -> HAdvance(called)
                   [] outcome = "error" -> HRespond(called, 500)
       IN  /\ loc' = [loc EXCEPT ![p] = l2]
           /\ pc' = [pc EXCEPT ![p] = HPc(l2)]
  /\ UNCHANGED <<now, ticks, mode, storeFaults, requestFingerprints, limit,
                 rateLimits, sessionLimits, costTracking, usageLog, users,
                 hist>>

(* the chat route records the estimated cost of the completion *)
HTrack(p) ==
  /\ HAt(p, "track")
  /\ costTracking' = trackCost(costTracking, 1, 1000, now)
  /\ loc' = [loc EXCEPT ![p] = HAdvance(@)]
  /\ pc' = [pc EXCEPT ![p] = HPc(HAdvance(loc[p]))]
  /\ UNCHANGED <<now, ticks, mode, storeFaults, requestFingerprints, limit,
                 rateLimits, sessionLimits, usageLog, users, hist>>

(* the scorer verdict: a flagged session is blocked, the usage record is
   logged, and the answer is 403 or 200 *)
HScore(p) ==
  /\ HAt(p, "score")
  /\ LET l == loc[p]
         verdict == checkSuspiciousActivity(usageLog, l.id.sessionId, l.ip,
                                            now)
         flagged == verdict.isSuspicious
         l2 == HRespond([l EXCEPT !.flagged = flagged],
                        IF flagged THEN 403 ELSE 200)
     IN  /\ sessionLimits' =
               IF flagged
               THEN blockSession(sessionLimits, l.id.sessionId,
                                 BLOCK_DURATION_MS, now)
               ELSE sessionLimits
         /\ usageLog' = Append(usageLog,
                               LogRecord(l.id, l.endpoint, l.ip, now, flagged))
         /\ hist' = IF flagged
                    THEN [hist EXCEPT !.blocks[l.id.sessionId] =
                            now + BLOCK_DURATION_MS]
                    ELSE hist
         /\ loc' = [loc EXCEPT ![p] = l2]
         /\ pc' = [pc EXCEPT ![p] = HPc(l2)]
  /\ UNCHANGED <<now, ticks, mode, storeFaults, requestFingerprints, limit,
                 rateLimits, costTracking, users>>

HReturn(p) ==
  /\ pc[p] = "h_done"
  /\ pc' = [pc EXCEPT ![p] = "idle"]
  /\ loc' = [loc EXCEPT ![p] = Idle]
  /\ UNCHANGED <<now, ticks, mode, storeFaults, requestFingerprints, limit,
                 rateLimits, sessionLimits, costTracking, usageLog, users,
                 hist>>

(* Time passes between requests: a millisecond, or the length of a block. *)
HDeltas == {1, BLOCK_DURATION_MS}

HTick ==
  /\ \A p \in Procs : pc[p] = "idle"
  /\ Advance(HDeltas)
  /\ UNCHANGED <<mode, storeFaults, requestFingerprints, limit, rateLimits,
                 sessionLimits, costTracking, usageLog, users, pc, loc, hist>>

RateKeys ==
  {<<"ip1", e>> : e \in Endpoints} \cup {<<sid, "token">> : sid \in SessionIds}

QuotaKeys == {QuotaKey(id) : id \in DlIdentities}

Anon == AnonIdentity("ip1")

UserA == [sessionId |-> "sA", userId |-> "u1"]

(* The store as earlier traffic can have left it.  Usage records older than
   an hour are read by nobody and are left out; a request that passed the
   guards and was rejected when its body was validated left no usage record
   and no cost.
   cold:  nothing is stored.
   busy:  every counter is one below its limit: the ledger of today, the
          rate-limit rows of the IP address in a window opened a millisecond
          ago, and the quota records of the anonymous session and of the
          user.
   rapid: one identity made five speech requests in the last millisecond. *)
HStore(scenario, who, t) ==
  [sessionLimits |->
     [k \in SessionIds |->
        CASE scenario = "busy" /\ k \in {Anon.sessionId, UserA.sessionId} ->
               DlRowAfter(IF k = Anon.sessionId THEN Anon ELSE UserA,
                          FREE_DAILY_LIMIT - 1, t - 1)
          [] scenario = "rapid" /\ k = who.sessionId ->
               DlRowAfter(who, GRACE_REQUESTS, t - 1)
          [] OTHER -> NoRow],
   rateLimits |->
     [k \in RateKeys |->
        CASE scenario = "busy" /\ k[1] = "ip1" ->
               RlRowAfter(RateLimitOf(k[2]) - 1, t - 1)
          [] scenario = "rapid" /\ k = <<"ip1", "speech">> ->
               RlRowAfter(GRACE_REQUESTS, t - 1)
          [] OTHER -> NoRow],
   costTracking |->
     [d \in LedgerDates |->
        IF scenario = "busy" /\ d = UtcDate(t)
        THEN [totalCost |-> DAILY_COST_LIMIT - 1,
              requestCount |-> DAILY_COST_LIMIT - 1,
              tokenCount |-> 1000 * (DAILY_COST_LIMIT - 1)]
        ELSE NoRow],
   usageLog |->
     IF scenario = "rapid"
     THEN [i \in 1 .. GRACE_REQUESTS |->
             LogRecord(who, "speech", "ip1", t - 1, FALSE)]
     ELSE <<>>,
   quota |->
     [q \in QuotaKeys |->
        [date |-> UtcDate(t),
         n |-> CASE scenario = "busy" -> FREE_DAILY_LIMIT - 1
                 [] scenario = "rapid" /\ q = QuotaKey(who) -> GRACE_REQUESTS
                 [] OTHER -> 0]]]

HInitWith(faults) ==
  /\ now = 2 * msPerDay + 2 * msPerHour
  /\ ticks = 0
  /\ mode = "serial"
  /\ storeFaults = faults
  /\ requestFingerprints = <<>>
  /\ limit = 1
  /\ \E sub \in {s \in Subscriptions : s.subscriptionStatus # "canceled"} :
       users = [u \in {"u1"} |-> sub]
  /\ \E scenario \in {"cold", "busy", "rapid"}, who \in {Anon, UserA} :
       /\ scenario # "rapid" => who = Anon
       /\ LET st == HStore(scenario, who, now) IN
            /\ sessionLimits = st.sessionLimits
            /\ rateLimits = st.rateLimits
            /\ costTracking = st.costTracking
            /\ usageLog = st.usageLog
            /\ hist = [calls |-> 0, quota |-> st.quota,
                       blocks |-> [k \in SessionIds |-> NullTime]]
  /\ pc = [p \in Procs |-> "idle"]
  /\ loc = [p \in Procs |-> Idle]

HInit == HInitWith(FALSE)

(* Requests are handled one after another: one handler shows them all. *)
HCallers == {1}

HNext ==
  \/ \E p \in HCallers : HArrive(p)
  \/ \E p \in HCallers : HBlock(p)
  \/ \E p \in HCallers : HCost(p)
  \/ \E p \in HCallers : HDaily(p)
  \/ \E p \in HCallers : HThrottle(p)
  \/ \E p \in HCallers : HRate(p)
  \/ \E p \in HCallers : HUpstream(p)
  \/ \E p \in HCallers : HTrack(p)
  \/ \E p \in HCallers : HScore(p)
  \/ \E p \in HCallers : HReturn(p)
  \/ HTick

SpecPipeline == HInit /\ [][HNext]_vars

HRequest(p) == loc[p].op = "request"

Guards(l) == [i \in DOMAIN l.trace |-> l.trace[i].guard]

HasConsulted(l, g) == \E i \in DOMAIN l.trace : l.trace[i].guard = g

FreeTier(id) ==
  id.userId = NoUser \/ users[id.userId].subscriptionTier = "free"

(* C3: for a free-tier identity whose checkDailyLimit calls of this UTC day
   have allowed 20 requests, the next request is denied by the daily quota
   with allowed = FALSE, tier "free" and remaining 0, and for that request
   neither the token throttle nor the rate limiter is consulted, no
   rate-limit row changes and the upstream API is not called. *)
C3_DeniedAfterTwenty ==
  \A p \in Procs :
    (/\ HRequest(p)
     /\ "pending" \notin DOMAIN loc[p].daily
     /\ FreeTier(loc[p].id)
     /\ loc[p].allowedBefore >= FREE_DAILY_LIMIT) =>
       LET l == loc[p] IN
       /\ "allowed" \in DOMAIN l.daily
       /\ l.daily.allowed = FALSE
       /\ l.daily.tier = "free"
       /\ l.daily.remaining = 0
       /\ pc[p] = "h_done"
       /\ l.status = 429
       /\ ~l.upstream
       /\ ~HasConsulted(l, "throttle")
       /\ ~HasConsulted(l, "rate")
       /\ ~HasConsulted(l, "upstream")
       /\ rateLimits = l.rate0

(* C3 witness: the 21st request of the day, to the token endpoint, has been
   denied by the daily quota. *)
C3_Witness ==
  \E p \in Procs :
    /\ HRequest(p)
    /\ pc[p] = "h_done"
    /\ loc[p].endpoint = "realtime"
    /\ loc[p].allowedBefore = FREE_DAILY_LIMIT
    /\ "allowed" \in DOMAIN loc[p].daily
    /\ ~loc[p].daily.allowed
    /\ loc[p].status = 429

(* C7: a flagged request leaves its session blocked until one hour after
   now and its usage record logged as suspicious; and a later request of
   that session, anonymous or authenticated, that arrives before the block
   expires is rejected with 403 at the session block check and reaches no
   other guard and no upstream call. *)
C7_BlockEnforced ==
  \A p \in Procs :
    HRequest(p) =>
      LET l == loc[p]
          sid == l.id.sessionId
      IN  /\ l.flagged =>
                /\ sessionLimits[sid] # NoRow
                /\ sessionLimits[sid].isBlocked
                /\ sessionLimits[sid].blockedUntil = now + BLOCK_DURATION_MS
                /\ usageLog[Len(usageLog)].sessionId = sid
                /\ usageLog[Len(usageLog)].suspicious
          /\ (~l.flagged /\ l.arrived < hist.blocks[sid]) =>
                \/ pc[p] = "h_block" /\ l.trace = <<>>
                \/ /\ pc[p] = "h_done"
                   /\ l.status = 403
                   /\ l.trace = <<[guard |-> "block", allowed |-> FALSE]>>
                   /\ ~l.upstream

(* The part of C7 that concerns a session without an authenticated user. *)
C7_AnonymousBlockEnforced ==
  \A p \in Procs :
    (/\ HRequest(p)
     /\ loc[p].id.userId = NoUser
     /\ ~loc[p].flagged
     /\ loc[p].arrived < hist.blocks[loc[p].id.sessionId]) =>
       \/ pc[p] = "h_block" /\ loc[p].trace = <<>>
       \/ /\ pc[p] = "h_done"
          /\ loc[p].status = 403
          /\ loc[p].trace = <<[guard |-> "block", allowed |-> FALSE]>>

(* The order of the guards as the specification gives it, and as the
   handlers have it. *)
StatedOrder == <<"block", "daily", "throttle", "rate", "cost", "upstream">>

HandlerOrder == <<"block", "cost", "daily", "throttle", "rate", "upstream">>

Rank(order, g) == CHOOSE i \in DOMAIN order : order[i] = g

(* the guards were consulted in the given order *)
InOrder(l, order) ==
  \A i, j \in DOMAIN l.trace :
    i < j => Rank(order, l.trace[i].guard) < Rank(order, l.trace[j].guard)

(* each guard was consulted only after those consulted before it allowed *)
EarlierAllowed(l) ==
  \A i \in DOMAIN l.trace : i < Len(l.trace) => l.trace[i].allowed

(* which endpoints a guard is for *)
GuardFor(g, endpoint) ==
  CASE g = "throttle" -> endpoint = "realtime"
    [] g = "cost" -> endpoint = "chat"
    [] OTHER -> TRUE

(* every guard for the endpoint that comes before a consulted step in the
   given order was itself consulted *)
NoneSkipped(l, order, from) ==
  \A i \in DOMAIN l.trace :
    \A k \in from .. Rank(order, l.trace[i].guard) - 1 :
      GuardFor(order[k], l.endpoint) => HasConsulted(l, order[k])

(* C8 as stated: the guards of every request are consulted in the order
   session block check, daily quota, token throttle (token endpoint), rate
   limiter, cost governor (chat endpoint), upstream call; none is consulted
   before every guard consulted earlier has allowed the request, and from the
   daily quota on none that is for the endpoint is left out. *)
C8_StatedOrder ==
  \A p \in Procs :
    HRequest(p) =>
      /\ InOrder(loc[p], StatedOrder)
      /\ EarlierAllowed(loc[p])
      /\ NoneSkipped(loc[p], StatedOrder, 2)

(* C8, amended: the guards of every request are consulted in the order
   session block check, cost governor (chat endpoint), daily quota, token
   throttle (token endpoint), rate limiter, upstream call; none is consulted
   before every guard consulted earlier has allowed the request, and from the
   cost governor on none that is for the endpoint is left out. *)
C8_HandlerOrder ==
  \A p \in Procs :
    HRequest(p) =>
      /\ InOrder(loc[p], HandlerOrder)
      /\ EarlierAllowed(loc[p])
      /\ NoneSkipped(loc[p], HandlerOrder, 2)

(* C8 witness: a chat request has reached the upstream call after the block
   check, the cost governor, the daily quota and the rate limiter. *)
C8_Witness ==
  \E p \in Procs :
    /\ HRequest(p)
    /\ loc[p].upstream
    /\ Guards(loc[p]) = <<"block", "cost", "daily", "rate", "upstream">>

(* C9: a guard's denial is the last thing consulted for its request: the
   handler has returned the rejection (403, 429 or 503), no later guard was
   consulted and the upstream API was not called. *)
C9_DenialEndsRequest ==
  \A p \in Procs :
    HRequest(p) =>
      \A i \in DOMAIN loc[p].trace :
        ~loc[p].trace[i].allowed =>
          /\ i = Len(loc[p].trace)
          /\ pc[p] = "h_done"
          /\ loc[p].status \in {403, 429, 503}
          /\ ~loc[p].upstream

(* a request that the named guard denied *)
DeniedBy(g) ==
  \E p \in Procs :
    /\ HRequest(p)
    /\ loc[p].trace # <<>>
    /\ loc[p].trace[Len(loc[p].trace)] = [guard |-> g, allowed |-> FALSE]

(* C9 witness: the rate limiter, the last guard of the token endpoint, has
   denied a request that the block check, the daily quota and the token
   throttle allowed. *)
C9_Witness ==
  \E p \in Procs :
    /\ HRequest(p)
    /\ pc[p] = "h_done"
    /\ loc[p].status = 429
    /\ loc[p].trace = <<[guard |-> "block", allowed |-> TRUE],
                        [guard |-> "daily", allowed |-> TRUE],
                        [guard |-> "throttle", allowed |-> TRUE],
                        [guard |-> "rate", allowed |-> FALSE]>>

----------------------------------------------------------------------------
(* The first requests of a new session: one identity that the store knows
   nothing about sends chat requests, one after another, at any pace. *)

(* the next chat request of the session under observation *)
HArriveNew(p) ==
  /\ MayStart(p)
  /\ hist.calls < GRACE_REQUESTS + 1
  /\ hist' = [hist EXCEPT !.calls = @ + 1]
  /\ loc' = [loc EXCEPT ![p] = HFrame("chat", hist.who, "ip1")]
  /\ pc' = [pc EXCEPT ![p] = HPc(HFrame("chat", hist.who, "ip1"))]
  /\ UNCHANGED <<now, ticks, mode, storeFaults, requestFingerprints, limit,
                 rateLimits, sessionLimits, costTracking, usageLog, users>>

NewDeltas == {1, msPerHour}

NewTick ==
  /\ \A p \in Procs : pc[p] = "idle"
  /\ ticks < MaxGaps
  /\ Advance(NewDeltas)
  /\ UNCHANGED <<mode, storeFaults, requestFingerprints, limit, rateLimits,
                 sessionLimits, costTracking, usageLog, users, pc, loc, hist>>

(* Nothing is stored about the session.  The IP address is quiet, or n other
   sessions of it each made one chat request a millisecond ago, which left
   n usage records, n in the rate-limit row and n dollars in the ledger. *)
NewInit ==
  /\ now = 2 * msPerDay + 2 * msPerHour
  /\ ticks = 0
  /\ mode = "serial"
  /\ storeFaults = FALSE
  /\ requestFingerprints = <<>>
  /\ limit = 1
  /\ users = [u \in {"u1"} |->
                [subscriptionTier |-> "free", subscriptionStatus |-> "free"]]
  /\ sessionLimits = [k \in SessionIds |-> NoRow]
  /\ \E n \in {0, 21} :
       /\ usageLog = ScCrowd(n, now - 1)
       /\ rateLimits = [k \in RateKeys |->
                          IF n > 0 /\ k = <<"ip1", "chat">>
                          THEN RlRowAfter(n, now - 1) ELSE NoRow]
       /\ costTracking = [d \in LedgerDates |->
                            IF n > 0 /\ d = UtcDate(now)
                            THEN [totalCost |-> n, requestCount |-> n,
                                  tokenCount |-> 1000 * n]
                            ELSE NoRow]
  /\ \E who \in {Anon, UserA} :
       hist = [calls |-> 0,
               quota |-> [q \in QuotaKeys |-> [date |-> UtcDate(now), n |-> 0]],
               blocks |-> [k \in SessionIds |-> NullTime],
               who |-> who]
  /\ pc = [p \in Procs |-> "idle"]
  /\ loc = [p \in Procs |-> Idle]

NewNext ==
  \/ \E p \in HCallers : HArriveNew(p)
  \/ \E p \in HCallers : HBlock(p)
  \/ \E p \in HCallers : HCost(p)
  \/ \E p \in HCallers : HDaily(p)
  \/ \E p \in HCallers : HRate(p)
  \/ \E p \in HCallers : HUpstream(p)
  \/ \E p \in HCallers : HTrack(p)
  \/ \E p \in HCallers : HScore(p)
  \/ \E p \in HCallers : HReturn(p)
  \/ NewTick

SpecNewSession == NewInit /\ [][NewNext]_vars

(* C11: the first five chat requests of a session without prior activity
   records are allowed end to end, whatever the time between them: no guard
   denies one and the scorer flags none. *)
C11_FirstFiveAllowed ==
  \A p \in Procs :
    (HRequest(p) /\ hist.calls <= 5) =>
      /\ \A i \in DOMAIN loc[p].trace : loc[p].trace[i].allowed
      /\ ~loc[p].flagged
      /\ loc[p].status \in {0, 200, 400, 500}
      /\ sessionLimits[loc[p].id.sessionId] # NoRow =>
           ~sessionLimits[loc[p].id.sessionId].isBlocked

(* C11 witness: the fifth request is answered 200 in the millisecond of the
   first, after all five reached the scorer, on an IP address that more than
   20 other sessions share. *)
C11_Witness ==
  \E p \in Procs :
    /\ HRequest(p)
    /\ hist.calls = 5
    /\ loc[p].status = 200
    /\ ticks = 0
    /\ ScLogged(usageLog, loc[p].id.sessionId) = 5
    /\ ScIpSessionCount(usageLog, "ip1", now) > 20

(* The sixth request of a burst is flagged. *)
NewSixthFlagged ==
  \E p \in Procs : HRequest(p) /\ hist.calls = 6 /\ loc[p].flagged

----------------------------------------------------------------------------
(* The scorer on synthetic activity logs.  Session s1 has n records; going
   back from the newest, written at t0, the gaps between them alternate
   g1, g2, g1, ...  A crowd of other sessions of the IP address wrote one
   record each at t0. *)

SynOffset(i, g1, g2) == (i \div 2) * (g1 + g2) + (i % 2) * g1

SynLog(n, g1, g2, crowd, t0) ==
  ScCrowd(crowd, t0)
  \o [j \in 1 .. n |->
        LogRecord([sessionId |-> "s1", userId |-> NoUser], "chat", "ip1",
                  t0 - SynOffset(n - j, g1, g2), FALSE)]

SynGaps == {100, 500, 800, 1500, 3000}

SynCounts == {5, 6, 20, 21, 30, 31, 50, 51}

SynCrowds == {0, 10, 20}

SynInit ==
  /\ now = 2 * msPerDay + 2 * msPerHour
  /\ ticks = 0
  /\ mode = "serial"
  /\ storeFaults = FALSE
  /\ requestFingerprints = <<>>
  /\ limit = 1
  /\ rateLimits = <<>>
  /\ sessionLimits = <<>>
  /\ costTracking = <<>>
  /\ users = <<>>
  /\ \E n \in SynCounts, g1 \in SynGaps, g2 \in SynGaps, crowd \in SynCrowds :
       /\ usageLog = SynLog(n, g1, g2, crowd, now)
       /\ hist = [calls |-> 0, n |-> n, g1 |-> g1, g2 |-> g2,
                  prior |-> crowd, t0 |-> now]
  /\ pc = [p \in Procs |-> "idle"]
  /\ loc = [p \in Procs |-> Idle]

SynDeltas == {1, 5 * 60000, msPerHour}

SynTick ==
  /\ \A p \in Procs : pc[p] = "idle"
  /\ Advance(SynDeltas)
  /\ UNCHANGED <<mode, storeFaults, requestFingerprints, limit, rateLimits,
                 sessionLimits, costTracking, usageLog, users, pc, loc, hist>>

SynNext ==
  \/ \E p \in ScCallers : ScCheck(p)
  \/ \E p \in ScCallers : ScReturn(p)
  \/ SynTick

SpecScoring == SynInit /\ [][SynNext]_vars

(* What the rules say of such a log at time t, worked out from n, g1, g2
   and the crowd alone. *)

(* the records of s1 younger than the given age *)
SynYounger(t, age) ==
  Cardinality({i \in 0 .. hist.n - 1 :
                 (t - hist.t0) + SynOffset(i, hist.g1, hist.g2) < age})

(* the records the rules look at: the newest 20 of the last hour *)
SynRecent(t) == Min(20, SynYounger(t, msPerHour))

(* the gaps the timing rules look at, and how many of them are g1 and g2 *)
SynDiffs(t) == Min(10, SynRecent(t) - 1)

SynC1(t) == (SynDiffs(t) + 1) \div 2

SynC2(t) == SynDiffs(t) \div 2

(* mean < m and standard deviation < sd of a sample of c1 values g1 and c2
   values g2: the variance is c1 * c2 * (g1 - g2)^2 / (c1 + c2)^2 *)
SynSteady(t, sd, m) ==
  /\ SynC1(t) * hist.g1 + SynC2(t) * hist.g2 < m * SynDiffs(t)
  /\ SynC1(t) * SynC2(t) * (hist.g1 - hist.g2) * (hist.g1 - hist.g2)
       < sd * sd * SynDiffs(t) * SynDiffs(t)

SynTiming(t) ==
  IF SynSteady(t, 100, 1000) THEN 3
  ELSE IF SynSteady(t, 200, 2000) THEN 1 ELSE 0

SynRapid(t) ==
  IF (IF hist.g1 < 200 THEN SynC1(t) ELSE 0)
     + (IF hist.g2 < 200 THEN SynC2(t) ELSE 0) >= 3
  THEN 2 ELSE 0

SynVolume(t) ==
  IF SynYounger(t, 5 * 60000) > 50 THEN 2
  ELSE IF SynYounger(t, 5 * 60000) > 30 THEN 1 ELSE 0

(* the sessions seen on the IP address in the last five minutes *)
SynIpSessions(t) == IF t - hist.t0 < 5 * 60000 THEN hist.prior + 1 ELSE 0

SynFanOut(t) ==
  IF SynIpSessions(t) > 20 THEN 3
  ELSE IF SynIpSessions(t) > 10 THEN 1 ELSE 0

(* the oldest record looked at is younger than 0.1 hour *)
SynBurst(t) ==
  IF /\ (t - hist.t0)
          + SynOffset(SynRecent(t) - 1, hist.g1, hist.g2) < 6 * 60000
     /\ SynYounger(t, 5 * 60000) > 20
  THEN 2 ELSE 0

SynSum(t) ==
  SynTiming(t) + SynRapid(t) + SynVolume(t) + SynFanOut(t) + SynBurst(t)

SynScored(p) == pc[p] = "sc_done" /\ loc[p].sessionId = "s1"

(* the log meets the conditions of the named rules and of no other rule
   among timing, rapid-fire, volume and IP fan-out *)
SynMeets(t, timing, volume) ==
  /\ SynTiming(t) = timing
  /\ SynVolume(t) = volume
  /\ SynRapid(t) = 0
  /\ SynFanOut(t) = 0

(* C12, as stated.  For a session with at least 5 records, counted over the
   last hour, the score is the sum of the points of the rules that hold and
   isSuspicious is score >= 5;
   a log that meets the timing rule (+3) and the volume rule (+2) scores 5
   and is suspicious, the timing rule alone scores 3 and the volume rule
   alone scores 2, neither suspicious. *)
C12_SumAsStated ==
  \A p \in Procs :
    (SynScored(p) /\ SynYounger(loc[p].now, msPerHour) >= 5) =>
      /\ loc[p].res.score = SynSum(loc[p].now)
      /\ loc[p].res.isSuspicious <=> (SynSum(loc[p].now) >= 5)
      /\ SynMeets(loc[p].now, 3, 2) =>
           (loc[p].res.score = 5 /\ loc[p].res.isSuspicious)
      /\ SynMeets(loc[p].now, 3, 0) =>
           (loc[p].res.score = 3 /\ ~loc[p].res.isSuspicious)
      /\ SynMeets(loc[p].now, 0, 2) =>
           (loc[p].res.score = 2 /\ ~loc[p].res.isSuspicious)

(* C12, amended.  For a session with at least 5 records in the last hour
   the score is the sum of the points of the rules that hold and
   isSuspicious is score >= 5.  More than 50 requests in 5 minutes always
   meet the burst rule as well: with the timing rule the log scores
   3 + 2 + 2 = 7 and is suspicious; the timing rule alone scores 3 and the
   volume rule without the timing rule scores 2 + 2 = 4, neither
   suspicious. *)
C12_ScoreIsSum ==
  \A p \in Procs :
    (SynScored(p) /\ SynYounger(loc[p].now, msPerHour) >= 5) =>
      /\ loc[p].res.score = SynSum(loc[p].now)
      /\ loc[p].res.isSuspicious <=> (SynSum(loc[p].now) >= 5)
      /\ SynVolume(loc[p].now) = 2 => SynBurst(loc[p].now) = 2
      /\ SynMeets(loc[p].now, 3, 2) =>
           (loc[p].res.score = 7 /\ loc[p].res.isSuspicious)
      /\ (SynMeets(loc[p].now, 3, 0) /\ SynBurst(loc[p].now) = 0) =>
           (loc[p].res.score = 3 /\ ~loc[p].res.isSuspicious)
      /\ SynMeets(loc[p].now, 0, 2) =>
           (loc[p].res.score = 4 /\ ~loc[p].res.isSuspicious)

(* the timing and the volume rule hold together and the call has answered *)
C12_Witness ==
  \E p \in Procs :
    /\ SynScored(p)
    /\ SynYounger(loc[p].now, msPerHour) >= 5
    /\ SynMeets(loc[p].now, 3, 2)
    /\ loc[p].res.score = 7
    /\ loc[p].res.isSuspicious

(* further cases of the sum that the logs reach *)
SynTimingAlone ==
  \E p \in Procs :
    SynScored(p) /\ SynMeets(loc[p].now, 3, 0) /\ loc[p].res.score = 3

SynVolumeAlone ==
  \E p \in Procs :
    SynScored(p) /\ SynMeets(loc[p].now, 0, 2) /\ loc[p].res.score = 4

SynAllRules ==
  \E p \in Procs :
    /\ SynScored(p)
    /\ SynTiming(loc[p].now) = 3 /\ SynRapid(loc[p].now) = 2
    /\ SynVolume(loc[p].now) = 2 /\ SynFanOut(loc[p].now) = 3
    /\ SynBurst(loc[p].now) = 2
    /\ loc[p].res.score = 12

SynOddGaps ==
  \E p \in Procs :
    SynScored(p) /\ SynDiffs(loc[p].now) = 5 /\ loc[p].res.score = 1

(* five records, all older than an hour, on a crowded IP address *)
SynStaleCrowded ==
  \E p \in Procs :
    /\ SynScored(p) /\ loc[p].logged >= 5
    /\ SynYounger(loc[p].now, msPerHour) < 5
    /\ loc[p].res.score = 0

----------------------------------------------------------------------------
(* The daily quota and the subscription: calls of checkDailyLimit for an
   anonymous client and for user u1, while updateSubscriptionStatus
   rewrites the subscription of u1. *)

(* stripe.js 108-146: the Stripe status is mapped onto the two columns *)
StripeStatuses == {"active", "trialing", "past_due", "unpaid", "canceled"}

SubscriptionOf(status) ==
  IF status \in {"active", "trialing"}
  THEN [subscriptionTier |-> "paid", subscriptionStatus |-> "active"]
  ELSE IF status \in {"past_due", "unpaid"}
  THEN [subscriptionTier |-> "free", subscriptionStatus |-> "past_due"]
  ELSE [subscriptionTier |-> "free", subscriptionStatus |-> "canceled"]

updateSubscriptionStatus(status) ==
  /\ users["u1"] # SubscriptionOf(status)
  /\ users' = [users EXCEPT !["u1"] = SubscriptionOf(status)]
  /\ UNCHANGED <<now, ticks, mode, storeFaults, requestFingerprints, limit,
                 rateLimits, sessionLimits, costTracking, usageLog, pc, loc,
                 hist>>

(* The two columns are plain text with default 'free' and no constraint
   between them (schema lines 58-59): besides the rows that
   updateSubscriptionStatus writes, a row may hold the paid tier with a
   status that is not 'active'. *)
TierRows ==
  {[subscriptionTier |-> "free", subscriptionStatus |-> "free"]}
  \cup {SubscriptionOf(st) : st \in StripeStatuses}
  \cup {[subscriptionTier |-> "paid", subscriptionStatus |-> "past_due"]}

(* stored counts of the day: no row, one below the free limit, and past the
   free limit, where the calls of a paid user leave the row of u1 *)
TierInit ==
  /\ ticks = 0
  /\ mode = "serial"
  /\ storeFaults = FALSE
  /\ requestFingerprints = <<>>
  /\ limit = 1
  /\ now = 2 * msPerDay + 2 * msPerHour
  /\ rateLimits = <<>>
  /\ costTracking = <<>>
  /\ usageLog = <<>>
  /\ \E sub \in TierRows : users = [u \in {"u1"} |-> sub]
  /\ \E anon \in {0, FREE_DAILY_LIMIT - 1},
        user \in {0, FREE_DAILY_LIMIT - 1, FREE_DAILY_LIMIT + 5} :
       sessionLimits =
         [k \in SessionIds |->
            IF k = "anon_ip1" /\ anon > 0
            THEN DlRowAfter(AnonIdentity("ip1"), anon, now - 1)
            ELSE IF k = "sA" /\ user > 0
            THEN DlRowAfter([sessionId |-> "sA", userId |-> "u1"], user,
                            now - 1)
            ELSE NoRow]
  /\ pc = [p \in Procs |-> "idle"]
  /\ loc = [p \in Procs |-> Idle]
  /\ hist = RlHist("tier", 0, 0)

TierCallers == {1}

TierTick ==
  /\ \A p \in Procs : pc[p] = "idle"
  /\ Advance(DlDeltas)
  /\ UNCHANGED <<mode, storeFaults, requestFingerprints, limit, rateLimits,
                 sessionLimits, costTracking, usageLog, users, pc, loc, hist>>

TierNext ==
  \/ \E p \in TierCallers : DlFind(p)
  \/ \E p \in TierCallers : DlCreate(p)
  \/ \E p \in TierCallers : DlUser(p)
  \/ \E p \in TierCallers : DlDecide(p)
  \/ \E p \in TierCallers : DlReturn(p)
  \/ \E status \in StripeStatuses : updateSubscriptionStatus(status)
  \/ TierTick

SpecTier == TierInit /\ [][TierNext]_vars

(* the call has made its decision *)
DlAnswered(p) == pc[p] = "dl_done" /\ "allowed" \in DOMAIN loc[p].res

(* the user row the call read says paid and active *)
DlReadPaidActive(p) ==
  /\ loc[p].usr # NoRow
  /\ loc[p].usr.subscriptionTier = "paid"
  /\ loc[p].usr.subscriptionStatus = "active"

(* C13: checkDailyLimit never denies a user it reads as tier 'paid' with
   status 'active', whatever the stored count; for every other identity
   (anonymous, free tier, paid tier with another status) the decision is
   made with the limit of 20: the call is denied exactly when the record
   already counts 20 or more requests of the current UTC day, and an
   allowed call of a record below the limit leaves at most 20. *)
C13_PaidUnlimitedElseTwenty ==
  \A p \in Procs :
    DlAnswered(p) =>
      LET l == loc[p] IN
      IF DlReadPaidActive(p)
      THEN l.res.allowed
      ELSE /\ l.res.limit = 20
           /\ ~l.res.allowed <=>
                (l.rec.dailyUsageCount >= 20 /\ l.rec.dailyUsageResetAt > l.now)
           /\ ~l.res.allowed =>
                l.rec.dailyUsageResetAt - l.now <= msPerDay
           /\ l.res.allowed => sessionLimits[l.key].dailyUsageCount <= 20

(* a paid, active user is allowed with a stored count past the free limit *)
C13_Witness ==
  \E p \in Procs :
    /\ DlAnswered(p)
    /\ DlReadPaidActive(p)
    /\ loc[p].rec.dailyUsageCount > FREE_DAILY_LIMIT
    /\ loc[p].rec.dailyUsageResetAt > loc[p].now
    /\ loc[p].res.allowed
    /\ sessionLimits[loc[p].key].dailyUsageCount
         = loc[p].rec.dailyUsageCount + 1

(* further cases: the paid tier without the active status, a user whose
   subscription was cancelled, and an anonymous client, each denied at 20 *)
TierPaidNotActiveDenied ==
  \E p \in Procs :
    /\ DlAnswered(p) /\ ~loc[p].res.allowed
    /\ loc[p].usr # NoRow
    /\ loc[p].usr.subscriptionTier = "paid"
    /\ loc[p].rec.dailyUsageCount = FREE_DAILY_LIMIT

TierCancelledDenied ==
  \E p \in Procs :
    /\ DlAnswered(p) /\ ~loc[p].res.allowed
    /\ loc[p].usr # NoRow
    /\ loc[p].usr.subscriptionStatus = "canceled"
    /\ hist.calls = 1

TierAnonymousDenied ==
  \E p \in Procs :
    /\ DlAnswered(p) /\ ~loc[p].res.allowed
    /\ loc[p].id.userId = NoUser

----------------------------------------------------------------------------
(* Request fingerprint tracker: trackFingerprint(fingerprint, ipAddress,
   sessionId).  Table request_fingerprints is unique on fingerprint.  IP
   addresses are numbered 1 .. MaxIps. *)

MaxIps == 51

FARM_IP_COUNT == 50

Fingerprints == {"f1"}

FpIps == 1 .. MaxIps

(* lines 60-70: the record of a fingerprint seen for the first time *)
FpNewRow(fingerprint, ipAddress, sessionId, t) ==
  [fingerprint |-> fingerprint, ipAddress |-> ipAddress,
   sessionId |-> sessionId, userAgent |-> "unknown",
   firstSeen |-> t, lastSeen |-> t, requestCount |-> 1]

(* lines 80-86: the update leaves ipAddress and sessionId as they are *)
FpUpdateRow(row, t) ==
  [row EXCEPT !.requestCount = @ + 1, !.lastSeen = t]

(* lines 90-100: the distinct ipAddress values of the rows of the
   fingerprint with lastSeen after oneDayAgo *)
FpUniqueIPs(tbl, fingerprint, oneDayAgo) ==
  {tbl[f].ipAddress : f \in {g \in DOMAIN tbl :
                                /\ tbl[g] # NoRow
                                /\ tbl[g].fingerprint = fingerprint
                                /\ tbl[g].lastSeen > oneDayAgo}}

(* line 102: uniqueIPs.length || 1 *)
FpIpCount(ips) == IF Cardinality(ips) = 0 THEN 1 ELSE Cardinality(ips)

FpResult(ipCount) ==
  [isSuspicious |-> ipCount >= FARM_IP_COUNT, ipCount |-> ipCount]

(* lines 48-57: the clock is read and the record looked up *)
FpFind(p) ==
  /\ MayStart(p)
  /\ hist.calls < MaxCalls
  /\ \E f \in Fingerprints,
        ip \in {1, Min(MaxIps, Cardinality({i \in FpIps :
                                              hist.seen[i] # NullTime}) + 1)} :
       /\ loc' = [loc EXCEPT ![p] =
                    [op |-> "trackFingerprint", fingerprint |-> f,
                     ipAddress |-> ip, sessionId |-> "s1", now |-> now,
                     record |-> requestFingerprints[f],
                     res |-> [pending |-> TRUE]]]
       /\ hist' = [hist EXCEPT !.calls = @ + 1, !.seen[ip] = now]
       /\ pc' = [pc EXCEPT ![p] =
                    IF requestFingerprints[f] = NoRow THEN "fp_create"
                    ELSE "fp_update"]
  /\ UNCHANGED <<now, ticks, mode, storeFaults, requestFingerprints, limit,
                 rateLimits, sessionLimits, costTracking, usageLog, users>>

(* lines 59-77 *)
FpCreate(p) ==
  /\ pc[p] = "fp_create"
  /\ LET l == loc[p] IN
       /\ requestFingerprints' =
            [requestFingerprints EXCEPT
               ![l.fingerprint] =
                  FpNewRow(l.fingerprint, l.ipAddress, l.sessionId, l.now)]
       /\ loc' = [loc EXCEPT ![p].res = FpResult(1)]
  /\ pc' = [pc EXCEPT ![p] = "fp_done"]
  /\ UNCHANGED <<now, ticks, mode, storeFaults, limit, rateLimits,
                 sessionLimits, costTracking, usageLog, users, hist>>

(* lines 79-86 *)
FpUpdate(p) ==
  /\ pc[p] = "fp_update"
  /\ LET l == loc[p] IN
       requestFingerprints' =
         [requestFingerprints EXCEPT
            ![l.fingerprint] = FpUpdateRow(@, l.now)]
  /\ pc' = [pc EXCEPT ![p] = "fp_count"]
  /\ UNCHANGED <<now, ticks, mode, storeFaults, limit, rateLimits,
                 sessionLimits, costTracking, usageLog, users, loc, hist>>

(* lines 88-118 *)
FpCount(p) ==
  /\ pc[p] = "fp_count"
  /\ LET l == loc[p]
         uniqueIPs == FpUniqueIPs(requestFingerprints, l.fingerprint,
                                  l.now - msPerDay)
     IN  loc' = [loc EXCEPT ![p].res = FpResult(FpIpCount(uniqueIPs))]
  /\ pc' = [pc EXCEPT ![p] = "fp_done"]
  /\ UNCHANGED <<now, ticks, mode, storeFaults, requestFingerprints, limit,
                 rateLimits, sessionLimits, costTracking, usageLog, users,
                 hist>>

FpReturn(p) ==
  /\ pc[p] = "fp_done"
  /\ pc' = [pc EXCEPT ![p] = "idle"]
  /\ loc' = [loc EXCEPT ![p] = Idle]
  /\ UNCHANGED <<now, ticks, mode, storeFaults, requestFingerprints, limit,
                 rateLimits, sessionLimits, costTracking, usageLog, users,
                 hist>>

FpDeltas == {1, msPerDay}

FpTick ==
  /\ \A p \in Procs : pc[p] = "idle"
  /\ Advance(FpDeltas)
  /\ UNCHANGED <<mode, storeFaults, requestFingerprints, limit, rateLimits,
                 sessionLimits, costTracking, usageLog, users, pc, loc,
                 hist>>

(* the record after calls from the IP addresses 1 .. n at time t0 *)
FpRowAfter(fingerprint, n, t0) ==
  [FpNewRow(fingerprint, 1, "s1", t0) EXCEPT !.requestCount = n]

(* The fingerprint is new, or has been tracked a moment ago from n distinct
   IP addresses. *)
FpInit ==
  /\ now = 2 * msPerDay + 2 * msPerHour
  /\ ticks = 0
  /\ mode = "serial"
  /\ storeFaults = FALSE
  /\ limit = 1
  /\ rateLimits = <<>>
  /\ sessionLimits = <<>>
  /\ costTracking = <<>>
  /\ usageLog = <<>>
  /\ users = <<>>
  /\ \E n \in {0, 1, FARM_IP_COUNT - 2, FARM_IP_COUNT - 1} :
       /\ requestFingerprints =
            [f \in Fingerprints |->
               IF n = 0 THEN NoRow ELSE FpRowAfter(f, n, now - 1)]
       /\ hist = [calls |-> 0,
                  seen |-> [i \in FpIps |->
                              IF i <= n THEN now - 1 ELSE NullTime]]
  /\ pc = [p \in Procs |-> "idle"]
  /\ loc = [p \in Procs |-> Idle]

FpCallers == {1}

FpNext ==
  \/ \E p \in FpCallers : FpFind(p)
  \/ \E p \in FpCallers : FpCreate(p)
  \/ \E p \in FpCallers : FpUpdate(p)
  \/ \E p \in FpCallers : FpCount(p)
  \/ \E p \in FpCallers : FpReturn(p)
  \/ FpTick

SpecFingerprint == FpInit /\ [][FpNext]_vars

(* the distinct IP addresses the fingerprint was tracked from in the 24
   hours before t, the call at t included *)
FpTracked(t) ==
  Cardinality({i \in FpIps :
                 hist.seen[i] # NullTime /\ hist.seen[i] > t - msPerDay})

(* C14: a trackFingerprint call for a fingerprint tracked from k distinct
   IP addresses within the trailing 24 hours reports ipCount = k, and
   isSuspicious exactly when k >= 50. *)
C14_IpCountDistinct ==
  \A p \in Procs :
    pc[p] = "fp_done" =>
      /\ loc[p].res.ipCount = FpTracked(loc[p].now)
      /\ loc[p].res.isSuspicious <=> (FpTracked(loc[p].now) >= FARM_IP_COUNT)

(* what the calls report instead: one IP address, never suspicious *)
FpAlwaysOne ==
  \A p \in Procs :
    pc[p] = "fp_done" =>
      (loc[p].res.ipCount = 1 /\ ~loc[p].res.isSuspicious)

(* the call from the 50th distinct IP address has answered *)
FpFiftiethTracked ==
  \E p \in Procs :
    /\ pc[p] = "fp_done"
    /\ FpTracked(loc[p].now) = FARM_IP_COUNT
    /\ loc[p].ipAddress = FARM_IP_COUNT
    /\ ~loc[p].res.isSuspicious

----------------------------------------------------------------------------
(* The cost governor on a store that may fail: each read of checkCostLimits
   either answers or raises an error, which the catch of lines 139-148
   turns into an answer. *)

(* a catch that denies *)
CcOnError_FailClosed == CcDenied(0)

(* lines 139-148 *)
CcOnError == CcAllowed(0, "null")

StoreError == [error |-> "store"]

(* the findUnique of lines 92-95 raises *)
CcReadFails(p) ==
  /\ pc[p] = "cc_read"
  /\ storeFaults
  /\ loc' = [loc EXCEPT ![p].found = StoreError, ![p].res = CcOnError]
  /\ pc' = [pc EXCEPT ![p] = "cc_done"]
  /\ UNCHANGED <<now, ticks, mode, storeFaults, requestFingerprints, limit,
                 rateLimits, sessionLimits, costTracking, usageLog, users,
                 hist>>

(* the usageLog.count of lines 114-120 raises *)
CcCountFails(p) ==
  /\ pc[p] = "cc_count"
  /\ storeFaults
  /\ loc' = [loc EXCEPT ![p].res = CcOnError]
  /\ pc' = [pc EXCEPT ![p] = "cc_done"]
  /\ UNCHANGED <<now, ticks, mode, storeFaults, requestFingerprints, limit,
                 rateLimits, sessionLimits, costTracking, usageLog, users,
                 hist>>

BUSY_HOUR_REQUESTS == 100

(* The ledger row of the day is absent or holds a spend around twice the
   hourly reference and around the ceiling; the last hour has seen no
   request or more than 100. *)
FaultyCostInit ==
  /\ now = 2 * msPerDay + 2 * msPerHour
  /\ ticks = 0
  /\ mode = "serial"
  /\ storeFaults = TRUE
  /\ requestFingerprints = <<>>
  /\ limit = 1
  /\ rateLimits = <<>>
  /\ sessionLimits = <<>>
  /\ users = <<>>
  /\ \E n \in {0, BUSY_HOUR_REQUESTS, BUSY_HOUR_REQUESTS + 1} :
       usageLog = ScCrowd(n, now - 1)
  /\ \E spent \in {0, 2 * HOURLY_COST_LIMIT, 2 * HOURLY_COST_LIMIT + 1,
                   DAILY_COST_LIMIT - 1, DAILY_COST_LIMIT,
                   DAILY_COST_LIMIT + 1} :
       costTracking =
         [d \in LedgerDates |->
            IF d = UtcDate(now) /\ spent > 0
            THEN [totalCost |-> spent, requestCount |-> spent,
                  tokenCount |-> 1000 * spent]
            ELSE NoRow]
  /\ pc = [p \in Procs |-> "idle"]
  /\ loc = [p \in Procs |-> Idle]
  /\ hist = RlHist("cost", 0, 0)

FaultyCostCallers == {1}

FaultyCostTick ==
  /\ ticks < MaxGaps
  /\ Advance({msPerHour, msPerDay})
  /\ UNCHANGED <<mode, storeFaults, requestFingerprints, limit, rateLimits,
                 sessionLimits, costTracking, usageLog, users, pc, loc, hist>>

FaultyCostNext ==
  \/ \E p \in FaultyCostCallers : TcFind(p)
  \/ \E p \in FaultyCostCallers : TcWrite(p)
  \/ \E p \in FaultyCostCallers : TcReturn(p)
  \/ \E p \in FaultyCostCallers : CcStart(p)
  \/ \E p \in FaultyCostCallers : CcRead(p)
  \/ \E p \in FaultyCostCallers : CcReadFails(p)
  \/ \E p \in FaultyCostCallers : CcCount(p)
  \/ \E p \in FaultyCostCallers : CcCountFails(p)
  \/ \E p \in FaultyCostCallers : CcReturn(p)
  \/ FaultyCostTick

SpecCostFaults == FaultyCostInit /\ [][FaultyCostNext]_vars

(* the ledger read of the call answered, with a row or with none *)
CcReadOk(p) == loc[p].found # StoreError

(* the totalCost the call read for its UTC day *)
CcReadCost(p) ==
  IF loc[p].found = NoRow THEN 0 ELSE loc[p].found.totalCost

(* the requests of the hour before the call and the spend it read are
   above the thresholds of the high-activity signal *)
CcBusyHour(p) ==
  /\ CcReadOk(p)
  /\ CcReadCost(p) > 2 * HOURLY_COST_LIMIT
  /\ Cardinality({i \in DOMAIN usageLog :
                    usageLog[i].timestamp > loc[p].now - msPerHour})
       > BUSY_HOUR_REQUESTS

(* C15: checkCostLimits returns allowed = FALSE exactly when its ledger
   read answered and the totalCost read for the current UTC day is at or
   above the daily ceiling; a call whose ledger read raised an error, and a
   call that meets the high-activity signal below the ceiling, return
   allowed = TRUE. *)
C15_DeniedIffReadAtCeiling ==
  \A p \in Procs :
    pc[p] = "cc_done" =>
      /\ ~loc[p].res.allowed <=>
           (CcReadOk(p) /\ CcReadCost(p) >= DAILY_COST_LIMIT)
      /\ ~CcReadOk(p) => loc[p].res.allowed
      /\ (CcBusyHour(p) /\ CcReadCost(p) < DAILY_COST_LIMIT) =>
           loc[p].res.allowed

(* the read fails on a day whose ledger is at the ceiling, and the call
   allows *)
C15_Witness ==
  \E p \in Procs :
    /\ pc[p] = "cc_done"
    /\ ~CcReadOk(p)
    /\ costTracking[loc[p].today] # NoRow
    /\ costTracking[loc[p].today].totalCost >= DAILY_COST_LIMIT
    /\ loc[p].res.allowed

(* further cases: the denial at the ceiling, the high-activity signal, and
   the count that fails *)
CcDeniedAtCeiling ==
  \E p \in Procs :
    /\ pc[p] = "cc_done" /\ CcReadOk(p)
    /\ CcReadCost(p) = DAILY_COST_LIMIT
    /\ ~loc[p].res.allowed

CcHighActivityAllowed ==
  \E p \in Procs :
    /\ pc[p] = "cc_done" /\ CcBusyHour(p)
    /\ loc[p].res.allowed
    /\ loc[p].res.reason = "High recent activity detected"

CcCountFailedAllowed ==
  \E p \in Procs :
    /\ pc[p] = "cc_done" /\ CcBusyHour(p)
    /\ loc[p].res = CcOnError

----------------------------------------------------------------------------
(* The session block registry by itself: checkBlocked reads the record,
   then the clock, and clears an expired block; meanwhile the clock moves
   and blockSession blocks sessions. *)

BkSessions == {"sA", "anon_ip1"}

(* blocking.js lines 11-17 *)
BkFind(p) ==
  /\ MayStart(p)
  /\ hist.calls < MaxCalls
  /\ hist' = [hist EXCEPT !.calls = @ + 1]
  /\ \E sid \in BkSessions :
       loc' = [loc EXCEPT ![p] =
                 [op |-> "checkBlocked", sessionId |-> sid,
                  found |-> sessionLimits[sid], now |-> NullTime,
                  res |-> [pending |-> TRUE]]]
  /\ pc' = [pc EXCEPT ![p] = "bk_decide"]
  /\ UNCHANGED <<now, ticks, mode, storeFaults, requestFingerprints, limit,
                 rateLimits, sessionLimits, costTracking, usageLog, users>>

(* blocking.js lines 19-43 *)
BkDecide(p) ==
  /\ pc[p] = "bk_decide"
  /\ LET l == loc[p] IN
       IF BlNoBlock(l.found)
       THEN /\ loc' = [loc EXCEPT ![p].res = NotBlocked, ![p].now = now]
            /\ UNCHANGED sessionLimits
       ELSE IF BlExpired(l.found, now)
       THEN /\ sessionLimits' = [sessionLimits EXCEPT
                                   ![l.sessionId] = BlClearRow(@)]
            /\ loc' = [loc EXCEPT ![p].res = NotBlocked, ![p].now = now]
       ELSE /\ loc' = [loc EXCEPT
                         ![p].res = [isBlocked |-> TRUE,
                                     blockedUntil |-> l.found.blockedUntil],
                         ![p].now = now]
            /\ UNCHANGED sessionLimits
  /\ pc' = [pc EXCEPT ![p] = "bk_done"]
  /\ UNCHANGED <<now, ticks, mode, storeFaults, requestFingerprints, limit,
                 rateLimits, costTracking, usageLog, users, hist>>

BkReturn(p) ==
  /\ pc[p] = "bk_done"
  /\ pc' = [pc EXCEPT ![p] = "idle"]
  /\ loc' = [loc EXCEPT ![p] = Idle]
  /\ UNCHANGED <<now, ticks, mode, storeFaults, requestFingerprints, limit,
                 rateLimits, sessionLimits, costTracking, usageLog, users,
                 hist>>

(* heuristics.js lines 184-217, called by a handler whose request the
   scorer flagged *)
BkBlockSession ==
  /\ hist.denied < MaxRequests
  /\ hist' = [hist EXCEPT !.denied = @ + 1]
  /\ \E sid \in BkSessions :
       sessionLimits' =
         blockSession(sessionLimits, sid, BLOCK_DURATION_MS, now)
  /\ UNCHANGED <<now, ticks, mode, storeFaults, requestFingerprints, limit,
                 rateLimits, costTracking, usageLog, users, pc, loc>>

BkDeltas == {1, BLOCK_DURATION_MS - 1}

BkTick ==
  /\ Advance(BkDeltas)
  /\ UNCHANGED <<mode, storeFaults, requestFingerprints, limit, rateLimits,
                 sessionLimits, costTracking, usageLog, users, pc, loc, hist>>

(* A session has no quota record or one of this day, not blocked. *)
BkInit ==
  /\ now = 2 * msPerDay + 2 * msPerHour
  /\ ticks = 0
  /\ mode = "serial"
  /\ storeFaults = FALSE
  /\ requestFingerprints = <<>>
  /\ limit = 1
  /\ rateLimits = <<>>
  /\ costTracking = <<>>
  /\ usageLog = <<>>
  /\ users = [u \in {"u1"} |->
               [subscriptionTier |-> "free", subscriptionStatus |-> "free"]]
  /\ \E known \in SUBSET BkSessions :
       sessionLimits =
         [k \in SessionIds |->
            IF k \in known
            THEN DlRowAfter(CHOOSE id \in DlIdentities : id.sessionId = k,
                            1, now - 1)
            ELSE NoRow]
  /\ pc = [p \in Procs |-> "idle"]
  /\ loc = [p \in Procs |-> Idle]
  /\ hist = RlHist("block", 0, 0)

BkCallers == {1, 2}

BkNext ==
  \/ \E p \in BkCallers : BkFind(p)
  \/ \E p \in BkCallers : BkDecide(p)
  \/ \E p \in BkCallers : BkReturn(p)
  \/ BkBlockSession
  \/ BkTick

SpecBlock == BkInit /\ [][BkNext]_vars

(* the record the call read is marked blocked with an until time *)
BkReadBlocked(p) ==
  /\ loc[p].found # NoRow
  /\ loc[p].found.isBlocked
  /\ loc[p].found.blockedUntil # NullTime

(* the step in which a call reads the clock and finds the block it read at
   or past its until time *)
BkExpiredStep(p) ==
  /\ pc[p] = "bk_decide" /\ pc'[p] = "bk_done"
  /\ BkReadBlocked(p)
  /\ loc[p].found.blockedUntil <= now

(* C16: checkBlocked reports isBlocked = TRUE only when the blockedUntil it
   read is strictly later than the clock it reads; when the record is
   marked blocked and blockedUntil is at or before that clock the call
   returns not-blocked and the step leaves the stored record with
   isBlocked = FALSE and blockedUntil = null. *)
C16_LazyExpiry ==
  /\ [](\A p \in Procs :
          pc[p] = "bk_done" =>
            /\ loc[p].res.isBlocked =>
                 (BkReadBlocked(p) /\ loc[p].found.blockedUntil > loc[p].now
                  /\ loc[p].res.blockedUntil = loc[p].found.blockedUntil)
            /\ (BkReadBlocked(p) /\ loc[p].found.blockedUntil <= loc[p].now)
                 => loc[p].res = NotBlocked)
  /\ [][\A p \in Procs :
          BkExpiredStep(p) =>
            /\ ~sessionLimits'[loc[p].sessionId].isBlocked
            /\ sessionLimits'[loc[p].sessionId].blockedUntil = NullTime
            /\ loc'[p].res = NotBlocked]_vars

(* a call made exactly at the until time of a block has answered
   not-blocked and the stored record is cleared *)
C16_Witness ==
  \E p \in Procs :
    /\ pc[p] = "bk_done"
    /\ BkReadBlocked(p)
    /\ loc[p].found.blockedUntil = loc[p].now
    /\ loc[p].res = NotBlocked
    /\ ~sessionLimits[loc[p].sessionId].isBlocked
    /\ sessionLimits[loc[p].sessionId].blockedUntil = NullTime

(* a block reported one millisecond before its until time *)
BkStillBlocked ==
  \E p \in Procs :
    /\ pc[p] = "bk_done" /\ loc[p].res.isBlocked
    /\ loc[p].res.blockedUntil = loc[p].now + 1

----------------------------------------------------------------------------
(* Overlapping checkDailyLimit calls: each handler makes one call, and the
   store operations of the calls interleave. *)

DlcTick ==
  /\ ticks < MaxRequests
  /\ Advance({1})
  /\ UNCHANGED <<mode, storeFaults, requestFingerprints, limit, rateLimits,
                 sessionLimits, costTracking, usageLog, users, pc, loc, hist>>

(* User u1 has no quota record, or the record of an earlier call under
   session sA. *)
DlcInit ==
  /\ ticks = 0
  /\ mode = "concurrent"
  /\ storeFaults = FALSE
  /\ requestFingerprints = <<>>
  /\ limit = 1
  /\ now = 2 * msPerDay + 2 * msPerHour
  /\ rateLimits = <<>>
  /\ costTracking = <<>>
  /\ usageLog = <<>>
  /\ users = [u \in {"u1"} |->
               [subscriptionTier |-> "free", subscriptionStatus |-> "free"]]
  /\ \E c \in {0, 1} :
       sessionLimits =
         [k \in SessionIds |->
            IF k = "sA" /\ c > 0
            THEN DlRowAfter([sessionId |-> "sA", userId |-> "u1"], c, now - 1)
            ELSE NoRow]
  /\ pc = [p \in Procs |-> "idle"]
  /\ loc = [p \in Procs |-> Idle]
  /\ hist = RlHist("daily", 0, 0)

DlcNext ==
  \/ \E p \in Procs : DlFind(p)
  \/ \E p \in Procs : DlCreate(p)
  \/ \E p \in Procs : DlUser(p)
  \/ \E p \in Procs : DlDecide(p)
  \/ DlcTick

SpecDailyConcurrent == DlcInit /\ [][DlcNext]_vars

(* the step in which the call of p creates a quota record for a user *)
DlCreatesForUser(p) ==
  /\ pc[p] = "dl_create"
  /\ loc[p].id.userId # NoUser
  /\ sessionLimits'[loc[p].id.sessionId] # sessionLimits[loc[p].id.sessionId]

(* the step in which the call of p, made for a user, finds a record *)
DlFindsForUser(p) ==
  /\ pc[p] = "idle" /\ pc'[p] = "dl_user"
  /\ loc'[p].key # "none"

(* the step in which the call of p updates the record it works on *)
DlUpdates(p) == pc[p] = "dl_decide" /\ pc'[p] = "dl_done"

(* C17: checkDailyLimit never creates a quota record for a userId while a
   record with that userId exists in the store, also when calls for the
   user under different session ids overlap; a call that finds records of
   the user reads one with the latest lastUsedAt and updates no other. *)
C17_OneRecordPerUser ==
  [][\A p \in Procs :
       /\ DlCreatesForUser(p) =>
            DlUserRows(sessionLimits, loc[p].id.userId) = {}
       /\ DlFindsForUser(p) =>
            /\ loc'[p].key \in DlUserRows(sessionLimits, loc'[p].id.userId)
            /\ \A k \in DlUserRows(sessionLimits, loc'[p].id.userId) :
                 sessionLimits[k].lastUsedAt <= loc'[p].rec.lastUsedAt
       /\ DlUpdates(p) =>
            \A k \in SessionIds \ {loc[p].key} :
              sessionLimits'[k] = sessionLimits[k]]_vars

(* the second half of C17 by itself: the record read and updated *)
DlReadsLatest ==
  [][\A p \in Procs :
       /\ DlFindsForUser(p) =>
            /\ loc'[p].key \in DlUserRows(sessionLimits, loc'[p].id.userId)
            /\ \A k \in DlUserRows(sessionLimits, loc'[p].id.userId) :
                 sessionLimits[k].lastUsedAt <= loc'[p].rec.lastUsedAt
       /\ DlUpdates(p) =>
            \A k \in SessionIds \ {loc[p].key} :
              sessionLimits'[k] = sessionLimits[k]]_vars

(* two quota records of one user *)
DlTwoRecords ==
  Cardinality(DlUserRows(sessionLimits, "u1")) = 2

(* both records have allowed the user requests of the same UTC day *)
DlTwoRecordsCounting ==
  /\ DlTwoRecords
  /\ \A k \in DlUserRows(sessionLimits, "u1") :
       sessionLimits[k].dailyUsageCount >= 1

----------------------------------------------------------------------------
(* The responses of the policy denials. *)

(* the guard that denied the request of p *)
HDenier(p) == loc[p].trace[Len(loc[p].trace)].guard

HDenied(p) ==
  /\ HRequest(p)
  /\ loc[p].trace # <<>>
  /\ ~loc[p].trace[Len(loc[p].trace)].allowed

(* s is the number of whole seconds that covers ms milliseconds *)
CoversMs(s, ms) == s * 1000 >= ms /\ (s - 1) * 1000 < ms

(* C18: a request denied by the daily quota, the token throttle or the
   rate limiter is answered 429 with a Retry-After header holding a
   duration in seconds (to the quota reset, to the end of the minimum
   interval, to the end of the rate window); a request denied by the
   session block check is answered 403 and one denied by the cost governor
   503, both without Retry-After. *)
C18_DenialStatus ==
  \A p \in Procs :
    HDenied(p) =>
      LET l == loc[p] IN
      /\ HDenier(p) \in {"daily", "throttle", "rate"} =>
           (l.status = 429 /\ l.retryAfter # NullTime /\ l.retryAfter >= 0)
      /\ HDenier(p) = "daily" =>
           CoversMs(l.retryAfter, l.daily.resetAt - l.arrived)
      /\ HDenier(p) = "throttle" =>
           (l.retryAfter >= 1
            /\ l.retryAfter * 1000 <= TOKEN_REQUEST_MIN_INTERVAL_MS)
      /\ HDenier(p) = "rate" =>
           CoversMs(l.retryAfter,
                    rateLimits[<<l.ip, l.endpoint>>].resetAt - l.arrived)
      /\ HDenier(p) = "block" => (l.status = 403 /\ l.retryAfter = NullTime)
      /\ HDenier(p) = "cost" => (l.status = 503 /\ l.retryAfter = NullTime)

(* a request denied by the daily quota two hours into a UTC day is told to
   retry after the 22 hours that are left of it *)
C18_Witness ==
  \E p \in Procs :
    /\ HDenied(p) /\ HDenier(p) = "daily"
    /\ loc[p].status = 429
    /\ loc[p].arrived % msPerDay = 2 * msPerHour
    /\ loc[p].retryAfter = 22 * 3600

(* further denials that are reached *)
HThrottleDenied ==
  \E p \in Procs :
    /\ HDenied(p) /\ HDenier(p) = "throttle"
    /\ loc[p].status = 429 /\ loc[p].retryAfter = 5

HRateDenied ==
  \E p \in Procs :
    /\ HDenied(p) /\ HDenier(p) = "rate"
    /\ loc[p].status = 429 /\ loc[p].retryAfter = 60

HBlockDenied ==
  \E p \in Procs :
    HDenied(p) /\ HDenier(p) = "block" /\ loc[p].status = 403

HCostDenied ==
  \E p \in Procs :
    HDenied(p) /\ HDenier(p) = "cost" /\ loc[p].status = 503

----------------------------------------------------------------------------
(* The route handlers on a store that may fail.  checkBlocked,
   checkDailyLimit, checkTokenRequestThrottle and rateLimit catch nothing:
   an error of one of their store operations leaves the guard as an
   exception, which the catch at the end of the handler answers. *)

(* a handler that takes a failed guard for one that allowed *)
HOnError_FailOpen(l, g) ==
  HAdvance(HConsulted([l EXCEPT !.failed = g], g, TRUE))

(* the catch of the route: a store error is no OpenAI.APIError, the status
   is 500 *)
HOnError(l, g) == HRespond([l EXCEPT !.failed = g], 500)

(* The tables a guard can leave behind when one of its store operations
   fails: the table as it was, or with the writes made before the failing
   operation. *)
HPartialBlock(p) == {sessionLimits}

HPartialDaily(p) ==
  {sessionLimits}
  \cup {[sessionLimits EXCEPT ![loc[p].id.sessionId] = DlNewRow(loc[p].id, now)] :
          k \in {x \in {"none"} : DlLookup(sessionLimits, loc[p].id) = {}
                                  /\ sessionLimits[loc[p].id.sessionId] = NoRow}}

HPartialRate(key) ==
  {rateLimits}
  \cup {[rateLimits EXCEPT ![key] = RlNewRow(now)] :
          k \in {x \in {"none"} : rateLimits[key] = NoRow}}
  \cup {[rateLimits EXCEPT ![key] = RlResetRow(@, now)] :
          k \in {x \in {"none"} : rateLimits[key] # NoRow
                                  /\ RlExpired(rateLimits[key], now)}}

HBlockFails(p) ==
  /\ HAt(p, "block")
  /\ storeFaults
  /\ \E tbl \in HPartialBlock(p) : sessionLimits' = tbl
  /\ loc' = [loc EXCEPT ![p] = HOnError(@, "block")]
  /\ pc' = [pc EXCEPT ![p] = HPc(HOnError(loc[p], "block"))]
  /\ UNCHANGED <<now, ticks, mode, storeFaults, requestFingerprints, limit,
                 rateLimits, costTracking, usageLog, users, hist>>

HDailyFails(p) ==
  /\ HAt(p, "daily")
  /\ storeFaults
  /\ \E tbl \in HPartialDaily(p) : sessionLimits' = tbl
  /\ loc' = [loc EXCEPT ![p] = HOnError(@, "daily")]
  /\ pc' = [pc EXCEPT ![p] = HPc(HOnError(loc[p], "daily"))]
  /\ UNCHANGED <<now, ticks, mode, storeFaults, requestFingerprints, limit,
                 rateLimits, costTracking, usageLog, users, hist>>

(* the denial of the throttle writes nothing, its other paths make one
   write: a failure leaves the table as it was *)
HThrottleFails(p) ==
  /\ HAt(p, "throttle")
  /\ storeFaults
  /\ loc' = [loc EXCEPT ![p] = HOnError(@, "throttle")]
  /\ pc' = [pc EXCEPT ![p] = HPc(HOnError(loc[p], "throttle"))]
  /\ UNCHANGED <<now, ticks, mode, storeFaults, requestFingerprints, limit,
                 rateLimits, sessionLimits, costTracking, usageLog, users,
                 hist>>

HRateFails(p) ==
  /\ HAt(p, "rate")
  /\ storeFaults
  /\ \E tbl \in HPartialRate(<<loc[p].ip, loc[p].endpoint>>) :
       rateLimits' = tbl
  /\ loc' = [loc EXCEPT ![p] = HOnError(@, "rate")]
  /\ pc' = [pc EXCEPT ![p] = HPc(HOnError(loc[p], "rate"))]
  /\ UNCHANGED <<now, ticks, mode, storeFaults, requestFingerprints, limit,
                 sessionLimits, costTracking, usageLog, users, hist>>

HFaultyInit == HInitWith(TRUE)

HFaultyNext ==
  \/ HNext
  \/ \E p \in HCallers : HBlockFails(p)
  \/ \E p \in HCallers : HDailyFails(p)
  \/ \E p \in HCallers : HThrottleFails(p)
  \/ \E p \in HCallers : HRateFails(p)

SpecPipelineFaults == HFaultyInit /\ [][HFaultyNext]_vars

PolicyGuards == {"block", "daily", "throttle", "rate"}

(* C19: when a store operation fails inside the session block check, the
   daily quota check, the token throttle or the rate limiter, the handler
   ends with an error response (status 500) and the upstream API is not
   called for that request. *)
C19_FailClosed ==
  \A p \in Procs :
    (HRequest(p) /\ loc[p].failed \in PolicyGuards) =>
      /\ pc[p] = "h_done"
      /\ loc[p].status = 500
      /\ ~loc[p].upstream
      /\ ~HasConsulted(loc[p], "upstream")

(* the rate limiter, the last guard before the upstream call of the chat
   route, fails after the other guards allowed the request *)
C19_Witness ==
  \E p \in Procs :
    /\ HRequest(p)
    /\ loc[p].endpoint = "chat"
    /\ loc[p].failed = "rate"
    /\ loc[p].trace = <<[guard |-> "block", allowed |-> TRUE],
                        [guard |-> "cost", allowed |-> TRUE],
                        [guard |-> "daily", allowed |-> TRUE]>>
    /\ loc[p].status = 500
    /\ ~loc[p].upstream

(* the named guard has failed *)
HGuardFails(g) == \E p \in Procs : HRequest(p) /\ loc[p].failed = g

----------------------------------------------------------------------------
(* The daily quota on a store whose user lookup may fail.  The
   user.findUnique of checkDailyLimit stands in no try/catch: its error
   leaves checkDailyLimit as an exception. *)

DlUserFails(p) ==
  /\ pc[p] = "dl_user"
  /\ storeFaults
  /\ loc' = [loc EXCEPT ![p].usr = StoreError, ![p].res = StoreError]
  /\ pc' = [pc EXCEPT ![p] = "dl_done"]
  /\ UNCHANGED <<now, ticks, mode, storeFaults, requestFingerprints, limit,
                 rateLimits, sessionLimits, costTracking, usageLog, users,
                 hist>>

(* The user table holds a row for u1, free or paid, or none. *)
DlFaultyInit ==
  /\ ticks = 0
  /\ mode = "serial"
  /\ storeFaults = TRUE
  /\ requestFingerprints = <<>>
  /\ limit = 1
  /\ now = 2 * msPerDay + 2 * msPerHour
  /\ rateLimits = <<>>
  /\ costTracking = <<>>
  /\ usageLog = <<>>
  /\ \E row \in {NoRow,
                 [subscriptionTier |-> "free", subscriptionStatus |-> "free"],
                 [subscriptionTier |-> "paid", subscriptionStatus |-> "active"]} :
       users = [u \in {"u1"} |-> row]
  /\ \E c \in {0, FREE_DAILY_LIMIT - 1, FREE_DAILY_LIMIT} :
       sessionLimits =
         [k \in SessionIds |->
            IF k = "sA" /\ c > 0
            THEN DlRowAfter([sessionId |-> "sA", userId |-> "u1"], c, now - 1)
            ELSE NoRow]
  /\ pc = [p \in Procs |-> "idle"]
  /\ loc = [p \in Procs |-> Idle]
  /\ hist = RlHist("daily", 0, 0)

DlFaultyNext ==
  \/ \E p \in TierCallers : DlFind(p)
  \/ \E p \in TierCallers : DlCreate(p)
  \/ \E p \in TierCallers : DlUser(p)
  \/ \E p \in TierCallers : DlUserFails(p)
  \/ \E p \in TierCallers : DlDecide(p)
  \/ \E p \in TierCallers : DlReturn(p)
  \/ TierTick

SpecDailyFaults == DlFaultyInit /\ [][DlFaultyNext]_vars

(* the call of p, made for a user, has ended *)
DlEndedForUser(p) ==
  /\ pc[p] = "dl_done"
  /\ loc[p].op = "dailyLimit"
  /\ loc[p].id.userId # NoUser

(* the call ended with a decision made with the free limit *)
DlFreeDecision(p) ==
  /\ "allowed" \in DOMAIN loc[p].res
  /\ loc[p].res.limit = FREE_DAILY_LIMIT
  /\ loc[p].res.tier = "free"
  /\ ~loc[p].res.allowed <=>
       (loc[p].rec.dailyUsageCount >= FREE_DAILY_LIMIT
        /\ loc[p].rec.dailyUsageResetAt > loc[p].now)

(* C20: when the user lookup of checkDailyLimit raises an error or finds
   no user, the call does not fail: it ends with an allow/deny decision
   made with the free limit of 20. *)
C20_LookupFailureIsFree ==
  \A p \in Procs :
    (DlEndedForUser(p) /\ loc[p].usr \in {NoRow, StoreError}) =>
      DlFreeDecision(p)

(* the half of C20 that holds: a lookup that finds no user *)
DlNoUserIsFree ==
  \A p \in Procs :
    (DlEndedForUser(p) /\ loc[p].usr = NoRow) => DlFreeDecision(p)

DlNoUserDenied ==
  \E p \in Procs :
    /\ DlEndedForUser(p) /\ loc[p].usr = NoRow
    /\ DlFreeDecision(p) /\ ~loc[p].res.allowed

(* a lookup that raised: the call ends with the error and no decision *)
DlLookupRaised ==
  \E p \in Procs :
    /\ DlEndedForUser(p) /\ loc[p].usr = StoreError
    /\ loc[p].res = StoreError

----------------------------------------------------------------------------
(* The denial of the rate limiter. *)

(* the call of p found a row whose window had not run out and whose count
   had reached the limit of the call *)
RlFoundFull(p) ==
  /\ RlReturned(p)
  /\ loc[p].found # NoRow
  /\ loc[p].found.resetAt > loc[p].now
  /\ loc[p].found.count >= loc[p].limit

(* C21: with the calls handled one after another, a rateLimit call that
   finds count >= limit in an unexpired window returns allowed = FALSE,
   remaining = 0 and the resetAt of the row, and leaves the row as it found
   it: count, resetAt and updatedAt are unchanged. *)
C21_DeniedWithoutIncrement ==
  \A p \in Procs :
    RlFoundFull(p) =>
      /\ loc[p].res = [allowed |-> FALSE, remaining |-> 0,
                       resetAt |-> loc[p].found.resetAt]
      /\ rateLimits[loc[p].key] = loc[p].found

(* a call that found count exactly equal to the limit has been denied *)
C21_Witness ==
  \E p \in Procs :
    /\ RlFoundFull(p)
    /\ loc[p].found.count = loc[p].limit
    /\ ~loc[p].res.allowed
    /\ rateLimits[loc[p].key].count = loc[p].limit

----------------------------------------------------------------------------
(* Overlapping checkDailyLimit calls near the free limit: the anonymous
   session has no quota record, or the record that 18, 19 or 20 allowed
   requests of this UTC day left.  The day does not end during the run. *)

DlqInit ==
  /\ ticks = 0
  /\ mode = "concurrent"
  /\ storeFaults = FALSE
  /\ requestFingerprints = <<>>
  /\ limit = 1
  /\ now = 2 * msPerDay + 2 * msPerHour
  /\ rateLimits = <<>>
  /\ costTracking = <<>>
  /\ usageLog = <<>>
  /\ users = [u \in {"u1"} |->
               [subscriptionTier |-> "free", subscriptionStatus |-> "free"]]
  /\ \E c \in {0, FREE_DAILY_LIMIT - 2, FREE_DAILY_LIMIT - 1,
               FREE_DAILY_LIMIT} :
       /\ sessionLimits =
            [k \in SessionIds |->
               IF k = Anon.sessionId /\ c > 0
               THEN DlRowAfter(Anon, c, now - 1)
               ELSE NoRow]
       /\ hist = RlHist("daily", c, now - 1)
  /\ pc = [p \in Procs |-> "idle"]
  /\ loc = [p \in Procs |-> Idle]

SpecQuotaRace == DlqInit /\ [][DlcNext]_vars

(* the calls of the run for the identity that were allowed *)
DlAllowedCalls(id) ==
  Cardinality({p \in Procs :
                 /\ pc[p] = "dl_done"
                 /\ loc[p].id = id
                 /\ "allowed" \in DOMAIN loc[p].res
                 /\ loc[p].res.allowed})

(* the allowed calls of the day for the anonymous session: those before the
   run and those of the run *)
DlAllowedOfDay == hist.prior + DlAllowedCalls(Anon)

(* C22: under any interleaving of overlapping checkDailyLimit calls for
   one free-tier identity within one UTC day, at most 20 calls of the day
   are allowed and dailyUsageCount equals the number of allowed calls. *)
C22_AtMostTwentyConcurrent ==
  /\ DlAllowedOfDay <= FREE_DAILY_LIMIT
  /\ sessionLimits[Anon.sessionId] # NoRow =>
       sessionLimits[Anon.sessionId].dailyUsageCount = DlAllowedOfDay

(* the half of C22 that holds: the stored count is the number of allowed
   calls *)
DlCountIsAllowed ==
  sessionLimits[Anon.sessionId] # NoRow =>
    sessionLimits[Anon.sessionId].dailyUsageCount = DlAllowedOfDay

(* three overlapping calls that all read count 19 are all allowed *)
DlTwentyTwoAllowed ==
  /\ hist.prior = FREE_DAILY_LIMIT - 1
  /\ DlAllowedCalls(Anon) = NumProcs
  /\ sessionLimits[Anon.sessionId].dailyUsageCount
       = FREE_DAILY_LIMIT - 1 + NumProcs

----------------------------------------------------------------------------
(* Overlapping trackCost calls: each handler records the cost of one
   request; the ledger row of the day is absent or holds the costs of
   earlier requests. *)

LedgerInit ==
  /\ now = 2 * msPerDay - 1
  /\ ticks = 0
  /\ mode = "concurrent"
  /\ storeFaults = FALSE
  /\ requestFingerprints = <<>>
  /\ limit = 1
  /\ rateLimits = <<>>
  /\ sessionLimits = <<>>
  /\ usageLog = <<>>
  /\ users = <<>>
  /\ \E spent \in {0, 5} :
       /\ costTracking =
            [d \in LedgerDates |->
               IF d = UtcDate(now) /\ spent > 0
               THEN [totalCost |-> spent, requestCount |-> spent,
                     tokenCount |-> 1000 * spent]
               ELSE NoRow]
       /\ hist = RlHist("cost", spent, now)
  /\ pc = [p \in Procs |-> "idle"]
  /\ loc = [p \in Procs |-> Idle]

LedgerNext ==
  \/ \E p \in Procs : TcFind(p)
  \/ \E p \in Procs : TcWrite(p)
  \/ CostTick

SpecLedger == LedgerInit /\ [][LedgerNext]_vars

(* the trackCost calls of the run that have returned, for UTC date d *)
TcReturnedCalls(d) ==
  {p \in Procs : pc[p] = "tc_done" /\ loc[p].today = d}

RECURSIVE TcSum(_, _)
TcSum(calls, field) ==
  IF calls = {} THEN 0
  ELSE LET p == CHOOSE q \in calls : TRUE
       IN  loc[p][field] + TcSum(calls \ {p}, field)

(* what earlier requests left in the row of date d *)
TcPrior(d) == IF d = UtcDate(2 * msPerDay - 1) THEN hist.prior ELSE 0

(* C23: after any interleaving of trackCost calls, the ledger row of a UTC
   day has totalCost equal to the sum of the recorded costs, requestCount
   equal to the number of trackCost calls and tokenCount equal to the sum
   of their tokens. *)
C23_LedgerIsSum ==
  \A d \in LedgerDates :
    TcReturnedCalls(d) # {} =>
      /\ costTracking[d] # NoRow
      /\ costTracking[d].totalCost
           = TcPrior(d) + TcSum(TcReturnedCalls(d), "cost")
      /\ costTracking[d].requestCount
           = TcPrior(d) + Cardinality(TcReturnedCalls(d))
      /\ costTracking[d].tokenCount
           = 1000 * TcPrior(d) + TcSum(TcReturnedCalls(d), "tokens")

(* the part of C23 that holds: totalCost of a day never decreases *)
TcNeverDecreases ==
  [][\A d \in LedgerDates :
       costTracking[d] # NoRow =>
         /\ costTracking'[d] # NoRow
         /\ costTracking'[d].totalCost >= costTracking[d].totalCost]_vars

(* and so does the sum, once the row of the day exists when the calls start *)
TcSumWithRow ==
  \A d \in LedgerDates :
    (TcReturnedCalls(d) # {}
     /\ \A p \in TcReturnedCalls(d) : loc[p].found # NoRow) =>
      costTracking[d].totalCost
        = TcPrior(d) + TcSum(TcReturnedCalls(d), "cost")

(* three first calls of a day have returned and the ledger holds the cost
   of one *)
TcFirstCallsLost ==
  \E d \in LedgerDates :
    /\ Cardinality(TcReturnedCalls(d)) = NumProcs
    /\ TcPrior(d) = 0
    /\ costTracking[d].totalCost = 1
    /\ costTracking[d].requestCount = 1

----------------------------------------------------------------------------
(* Requests that straddle a rollover.  The rate-limit window of the key and
   the UTC day of the anonymous session have just run out, both full.  Two
   handlers take overlapping requests, store operation by store operation;
   the other requests of the run are handled in one piece each, before, after
   or between the store operations of the two, all within the first
   millisecond of the new window. *)

MaxFollowers == 21

Straddlers == {p \in Procs : p < NumProcs}

RoInit ==
  /\ ticks = 0
  /\ mode = "concurrent"
  /\ storeFaults = FALSE
  /\ requestFingerprints = <<>>
  /\ limit \in 1 .. MaxLimit
  /\ now = 2 * msPerDay
  /\ rateLimits = [k \in {RlKey} |-> RlRowAfter(limit, now - windowMs)]
  /\ sessionLimits =
       [k \in SessionIds |->
          IF k = Anon.sessionId
          THEN DlRowAfter(Anon, FREE_DAILY_LIMIT, now - 1)
          ELSE NoRow]
  /\ costTracking = <<>>
  /\ usageLog = <<>>
  /\ users = <<>>
  /\ \E guard \in {"rate", "daily"} :
       hist = [calls |-> 0, allowedAt |-> <<>>, denied |-> 0,
               start |-> guard, prior |-> 0, between |-> FALSE]
  /\ pc = [p \in Procs |-> "idle"]
  /\ loc = [p \in Procs |-> Idle]

(* a request is in flight in one of the two handlers *)
RoInFlight == \E p \in Straddlers : pc[p] \notin {"idle", "rl_done", "dl_done"}

(* a request handled in one piece: rateLimit (part_001 20-99) or
   checkDailyLimit (limits.js 13-144) *)
RoFollow ==
  /\ Len(hist.allowedAt) + hist.denied < MaxFollowers
  /\ \E out \in IF hist.start = "rate"
                THEN {rateLimit(rateLimits, RlKey[1], limit, RlKey[2], now)}
                ELSE checkDailyLimit(sessionLimits, users, Anon, now) :
       /\ IF hist.start = "rate"
          THEN rateLimits' = out.tbl /\ UNCHANGED sessionLimits
          ELSE sessionLimits' = out.tbl /\ UNCHANGED rateLimits
       /\ hist' = [hist EXCEPT
                     !.allowedAt = IF out.res.allowed THEN Append(@, now)
                                   ELSE @,
                     !.denied = IF out.res.allowed THEN @ ELSE @ + 1,
                     !.between = @ \/ RoInFlight]
  /\ UNCHANGED <<now, ticks, mode, storeFaults, requestFingerprints, limit,
                 costTracking, usageLog, users, pc, loc>>

RoRateFind(p) == hist.start = "rate" /\ RlFind(p)

RoDailyFind(p) ==
  /\ hist.start = "daily"
  /\ DlFind(p)
  /\ loc'[p].id = Anon

RoNext ==
  \/ \E p \in Straddlers : RoRateFind(p)
  \/ \E p \in Straddlers : RlEnsure(p)
  \/ \E p \in Straddlers : RlConsume(p)
  \/ \E p \in Straddlers : RoDailyFind(p)
  \/ \E p \in Straddlers : DlDecide(p)
  \/ RoFollow

SpecRollover == RoInit /\ [][RoNext]_vars

(* the request of p read the expired row and reset it *)
RoStraddled(p) ==
  \/ /\ RlReturned(p)
     /\ loc[p].found # NoRow
     /\ RlExpired(loc[p].found, loc[p].now)
  \/ /\ pc[p] = "dl_done"
     /\ DlNeedsReset(loc[p].rec, loc[p].now)

RoBothStraddled ==
  /\ Cardinality(Straddlers) = 2
  /\ \A p \in Straddlers : RoStraddled(p)

(* the requests allowed since the rollover *)
RoAllowed ==
  IF hist.start = "rate" THEN Len(hist.allowedAt)
  ELSE Len(hist.allowedAt) + DlAllowedCalls(Anon)

RoBound == IF hist.start = "rate" THEN limit + 1 ELSE FREE_DAILY_LIMIT + 1

(* C24: when two overlapping requests for a key both read the expired row
   and both reset it, at most L + 1 requests are allowed in the new window
   of rateLimit with limit L, and at most 21 in the new day of a free-tier
   checkDailyLimit. *)
C24_AtMostOneExtra == RoBothStraddled => RoAllowed <= RoBound

(* the bound holds when no other request is handled while one of the two is
   in flight *)
RoOneExtraWhenAlone ==
  (RoBothStraddled /\ ~hist.between) => RoAllowed <= RoBound

(* a rate-limit window with limit 2 in which 4 requests were allowed *)
RoRateTwiceTheLimit ==
  /\ hist.start = "rate" /\ RoBothStraddled
  /\ limit = MaxLimit /\ RoAllowed = 2 * MaxLimit

(* a free-tier day in which 22 requests were allowed *)
RoDayTwentyTwo ==
  /\ hist.start = "daily" /\ RoBothStraddled
  /\ RoAllowed = FREE_DAILY_LIMIT + 2

(* the bound is met by the two alone *)
RoOneExtra ==
  /\ RoBothStraddled /\ ~hist.between /\ RoAllowed = RoBound

----------------------------------------------------------------------------
(* The first calls of rateLimit for a key. *)

(* the call of p found no row for the key and has ended *)
RlFirstCall(p) == RlReturned(p) /\ loc[p].found = NoRow

(* two overlapping first calls have ended and no other call was made *)
RlTwoFirstCalls(p, q) ==
  /\ p # q
  /\ RlFirstCall(p) /\ RlFirstCall(q)
  /\ \A r \in Procs \ {p, q} : pc[r] = "idle"

(* how many of the calls of p and q were allowed *)
RlAllowedOf(p, q) ==
  Cardinality({r \in {p, q} : "allowed" \in DOMAIN loc[r].res
                               /\ loc[r].res.allowed})

(* C25: two overlapping first calls of rateLimit for a key without a row
   both end with an allow/deny result and none with a uniqueness error;
   afterwards the key has its one row, and the count of the row is the
   number of the calls that were allowed. *)
C25_FirstCallsBothAnswer ==
  \A p, q \in Procs :
    RlTwoFirstCalls(p, q) =>
      /\ "allowed" \in DOMAIN loc[p].res
      /\ "allowed" \in DOMAIN loc[q].res
      /\ rateLimits[RlKey] # NoRow
      /\ rateLimits[RlKey].count = RlAllowedOf(p, q)

(* the part of C25 that holds: the row exists and counts the allowed calls *)
RlFirstCallsCounted ==
  \A p, q \in Procs :
    RlTwoFirstCalls(p, q) =>
      /\ rateLimits[RlKey] # NoRow
      /\ rateLimits[RlKey].count = RlAllowedOf(p, q)

(* of two overlapping first calls, one ends with the error of the create *)
RlOneFirstCallThrows ==
  \A p, q \in Procs :
    RlTwoFirstCalls(p, q) =>
      (loc[p].res = [error |-> "unique"]) # (loc[q].res = [error |-> "unique"])

RlFirstCallThrew ==
  \E p, q \in Procs :
    /\ RlTwoFirstCalls(p, q)
    /\ loc[p].res = [error |-> "unique"]
    /\ "allowed" \in DOMAIN loc[q].res /\ loc[q].res.allowed
    /\ rateLimits[RlKey].count = 1

----------------------------------------------------------------------------
(* blockSession(sessionId, durationMs) and the checkBlocked calls that follow
   it, handled one after another. *)

BsDurations == {BLOCK_DURATION_MS, 2 * BLOCK_DURATION_MS}

BsCallers == {1}

(* A session has no quota record or one of this day, not blocked; hist keeps
   the arguments and the time of the last blockSession call per session. *)
BsInit ==
  /\ now = 2 * msPerDay + 2 * msPerHour
  /\ ticks = 0
  /\ mode = "serial"
  /\ storeFaults = FALSE
  /\ requestFingerprints = <<>>
  /\ limit = 1
  /\ rateLimits = <<>>
  /\ costTracking = <<>>
  /\ usageLog = <<>>
  /\ users = [u \in {"u1"} |->
               [subscriptionTier |-> "free", subscriptionStatus |-> "free"]]
  /\ \E known \in SUBSET BkSessions :
       /\ sessionLimits =
            [k \in SessionIds |->
               IF k \in known
               THEN DlRowAfter(CHOOSE id \in DlIdentities : id.sessionId = k,
                               1, now - 1)
               ELSE NoRow]
       /\ hist = [calls |-> 0, denied |-> 0, start |-> "block",
                  fresh |-> BkSessions \ known,
                  blockedAt |-> [k \in BkSessions |-> NullTime],
                  durationMs |-> [k \in BkSessions |-> 0]]
  /\ pc = [p \in Procs |-> "idle"]
  /\ loc = [p \in Procs |-> Idle]

(* heuristics.js lines 184-217, called while no checkBlocked is in flight *)
BsBlockSession ==
  /\ \A p \in Procs : pc[p] = "idle"
  /\ hist.denied < MaxRequests
  /\ \E sid \in BkSessions, d \in BsDurations :
       /\ sessionLimits' = blockSession(sessionLimits, sid, d, now)
       /\ hist' = [hist EXCEPT !.denied = @ + 1,
                               !.blockedAt[sid] = now,
                               !.durationMs[sid] = d]
  /\ UNCHANGED <<now, ticks, mode, storeFaults, requestFingerprints, limit,
                 rateLimits, costTracking, usageLog, users, pc, loc>>

BsNext ==
  \/ \E p \in BsCallers : BkFind(p)
  \/ \E p \in BsCallers : BkDecide(p)
  \/ \E p \in BsCallers : BkReturn(p)
  \/ BsBlockSession
  \/ BkTick

SpecBlockSerial == BsInit /\ [][BsNext]_vars

(* the session was blocked and the time its last block runs to *)
BsBlocked(sid) == hist.blockedAt[sid] # NullTime

BsUntil(sid) == hist.blockedAt[sid] + hist.durationMs[sid]

(* a checkBlocked call for a blocked session, made before the block ends,
   has returned *)
BsCheckedInTime(p) ==
  /\ pc[p] = "bk_done"
  /\ BsBlocked(loc[p].sessionId)
  /\ loc[p].now < BsUntil(loc[p].sessionId)

(* C26: after blockSession(sessionId, durationMs) returns, the store holds a
   record for sessionId with isBlocked = TRUE and blockedUntil = now +
   durationMs, a placeholder being created when the session had none; a
   checkBlocked(sessionId) made before that time reports blocked. *)
C26_BlockTakesEffect ==
  /\ \A sid \in BkSessions :
       (BsBlocked(sid) /\ now < BsUntil(sid)) =>
         /\ sessionLimits[sid] # NoRow
         /\ sessionLimits[sid].isBlocked
         /\ sessionLimits[sid].blockedUntil = BsUntil(sid)
  /\ \A sid \in BkSessions :
       (BsBlocked(sid) /\ sid \in hist.fresh /\ now = hist.blockedAt[sid]) =>
         /\ sessionLimits[sid].userId = NoUser
         /\ sessionLimits[sid].dailyUsageCount = 0
  /\ \A p \in Procs :
       BsCheckedInTime(p) =>
         loc[p].res = [isBlocked |-> TRUE,
                       blockedUntil |-> BsUntil(loc[p].sessionId)]

(* a session without a record was blocked for two hours, and a checkBlocked
   made more than an hour later reported the block *)
C26_Witness ==
  \E p \in Procs :
    /\ BsCheckedInTime(p)
    /\ loc[p].sessionId \in hist.fresh
    /\ hist.durationMs[loc[p].sessionId] = 2 * BLOCK_DURATION_MS
    /\ loc[p].now > hist.blockedAt[loc[p].sessionId] + BLOCK_DURATION_MS
    /\ loc[p].res.isBlocked
    /\ sessionLimits[loc[p].sessionId].userId = NoUser

(* a block of a session that had a record, reported in time *)
BsKnownSessionBlocked ==
  \E p \in Procs :
    /\ BsCheckedInTime(p)
    /\ loc[p].sessionId \notin hist.fresh
    /\ loc[p].res.isBlocked
    /\ sessionLimits[loc[p].sessionId].dailyUsageCount = 1

(* a check at the end of the block reports the session free *)
BsCheckedAtEnd ==
  \E p \in Procs :
    /\ pc[p] = "bk_done"
    /\ BsBlocked(loc[p].sessionId)
    /\ loc[p].now = BsUntil(loc[p].sessionId)
    /\ loc[p].res = NotBlocked

----------------------------------------------------------------------------
(* The reason of the scorer on the synthetic activity logs. *)

(* the gaps under 200 ms and the descriptions of the rules, worked out from
   n, g1, g2 and the crowd alone *)
SynRapidCount(t) ==
  (IF hist.g1 < 200 THEN SynC1(t) ELSE 0)
  + (IF hist.g2 < 200 THEN SynC2(t) ELSE 0)

SynDescriptions(t) ==
  [timing |-> "Extremely consistent request timing detected",
   rapid |-> ToString(SynRapidCount(t)) \o " requests under 200ms apart",
   volume |-> "Very high request rate: "
                \o ToString(SynYounger(t, 5 * 60000)) \o " in 5 minutes",
   fanOut |-> ToString(SynIpSessions(t))
                \o " different sessions from same IP",
   burst |-> "Short session with high activity"]

(* the descriptions of the rules that gave at least the named points *)
SynNamed(t, timing, volume, fanOut) ==
  LET d == SynDescriptions(t) IN
  (IF SynTiming(t) >= timing THEN <<d.timing>> ELSE <<>>)
  \o (IF SynRapid(t) > 0 THEN <<d.rapid>> ELSE <<>>)
  \o (IF SynVolume(t) >= volume THEN <<d.volume>> ELSE <<>>)
  \o (IF SynFanOut(t) >= fanOut THEN <<d.fanOut>> ELSE <<>>)
  \o (IF SynBurst(t) > 0 THEN <<d.burst>> ELSE <<>>)

(* C27: when checkSuspiciousActivity returns isSuspicious = TRUE, reason is
   the concatenation of the descriptions of all rules that gave points to
   the score; when it returns isSuspicious = FALSE, reason is null. *)
C27_ReasonNamesAllRules ==
  \A p \in Procs :
    SynScored(p) =>
      loc[p].res.reason =
        IF loc[p].res.isSuspicious
        THEN ScJoin(SynNamed(loc[p].now, 1, 1, 1))
        ELSE "null"

(* what holds: the reason names the rules that gave their full points, and
   is null when the request is not suspicious *)
SynReasonNamesFullTiers ==
  \A p \in Procs :
    SynScored(p) =>
      loc[p].res.reason =
        IF loc[p].res.isSuspicious
        THEN ScJoin(SynNamed(loc[p].now, 3, 2, 3))
        ELSE "null"

(* a request is suspicious by the point of a rule that the reason does not
   name: 2 + 2 for rapid requests in a short busy session and 1 for the
   sessions of the IP address *)
SynUnnamedPointDecides ==
  \E p \in Procs :
    /\ SynScored(p)
    /\ loc[p].res.isSuspicious /\ loc[p].res.score = SUSPICIOUS_SCORE
    /\ SynFanOut(loc[p].now) = 1
    /\ loc[p].res.reason =
         ScJoin(<<SynDescriptions(loc[p].now).rapid,
                  SynDescriptions(loc[p].now).burst>>)

(* a reason of all five descriptions *)
SynReasonOfAll ==
  \E p \in Procs :
    /\ SynScored(p) /\ loc[p].res.score = 12
    /\ loc[p].res.reason =
         "Extremely consistent request timing detected; "
         \o "10 requests under 200ms apart; "
         \o "Very high request rate: 51 in 5 minutes; "
         \o "21 different sessions from same IP; "
         \o "Short session with high activity"

----------------------------------------------------------------------------
(* The daily quota of a request that a later guard denies. *)

(* checkDailyLimit allowed the request of p *)
HDailyAllowed(p) ==
  /\ HRequest(p)
  /\ "allowed" \in DOMAIN loc[p].daily
  /\ loc[p].daily.allowed

(* the quota record of the identity of p counts the request of p on top of
   the requests allowed before it on this UTC day *)
HQuotaCounted(p) ==
  \E k \in DlLookup(sessionLimits, loc[p].id) :
    sessionLimits[k].dailyUsageCount = loc[p].allowedBefore + 1

(* C28: the daily quota is consumed before the token throttle and the rate
   limiter are consulted: a request denied by the token throttle or the rate
   limiter was allowed by checkDailyLimit before, has raised dailyUsageCount
   by one, and the increment stays for the rest of the request. *)
C28_QuotaConsumedFirst ==
  \A p \in Procs :
    /\ (HDenied(p) /\ HDenier(p) \in {"throttle", "rate"}) =>
         /\ HDailyAllowed(p)
         /\ \E i \in 1 .. Len(loc[p].trace) - 1 :
              loc[p].trace[i] = [guard |-> "daily", allowed |-> TRUE]
         /\ ~loc[p].upstream
    /\ HDailyAllowed(p) => HQuotaCounted(p)

(* a token request of a session's second use of the day is denied by the
   throttle, and the quota record counts it *)
C28_Witness ==
  \E p \in Procs :
    /\ HDenied(p) /\ HDenier(p) = "throttle"
    /\ loc[p].status = 429
    /\ loc[p].allowedBefore = 1
    /\ HQuotaCounted(p)

(* the same of a request denied by the rate limiter *)
HRateDeniedCounted ==
  \E p \in Procs :
    /\ HDenied(p) /\ HDenier(p) = "rate"
    /\ loc[p].endpoint = "speech"
    /\ HDailyAllowed(p) /\ HQuotaCounted(p)
    /\ loc[p].allowedBefore > 0

----------------------------------------------------------------------------
(* Retries against the token throttle: the calls of one session, handled one
   after another, each a whole checkTokenRequestThrottle call. *)

ThCall(p) ==
  /\ MayStart(p)
  /\ hist.calls < MaxCalls
  /\ LET out == checkTokenRequestThrottle(rateLimits, ThKey[1], now) IN
       /\ rateLimits' = out.tbl
       /\ loc' = [loc EXCEPT ![p] =
                    [op |-> "tokenThrottle", key |-> ThKey, now |-> now,
                     found |-> rateLimits[ThKey], res |-> out.res]]
       /\ hist' = [hist EXCEPT
                     !.calls = @ + 1,
                     !.denied = IF out.res.allowed THEN @ ELSE @ + 1,
                     !.allowedAt = IF out.res.allowed THEN Append(@, now)
                                   ELSE @]
  /\ pc' = [pc EXCEPT ![p] = "th_done"]
  /\ UNCHANGED <<now, ticks, mode, storeFaults, requestFingerprints, limit,
                 sessionLimits, costTracking, usageLog, users>>

ThRetryCallers == {1}

ThRetryNext ==
  \/ \E p \in ThRetryCallers : ThCall(p)
  \/ \E p \in ThRetryCallers : ThReturn(p)
  \/ ThTick

SpecThrottleRetries == ThInit /\ [][ThRetryNext]_vars

(* the time from which the row lets the next issuance through: the end of
   the minimum interval, which lies before the end of the window *)
ThNextAllowedAt(row) ==
  row.resetAt - TOKEN_REQUEST_WINDOW_MS + TOKEN_REQUEST_MIN_INTERVAL_MS

(* the step is a call of p that is denied *)
ThDeniedStep(p) ==
  /\ pc[p] = "idle" /\ pc'[p] = "th_done"
  /\ ~loc'[p].res.allowed

(* C29: a denied checkTokenRequestThrottle call leaves the window row of the
   session (count, resetAt, updatedAt) as it was, so the time at which the
   next issuance becomes allowed is the same before and after the call. *)
C29_DenialLeavesRow ==
  [][\A p \in Procs :
       ThDeniedStep(p) =>
         /\ rateLimits' = rateLimits
         /\ ThNextAllowedAt(rateLimits'[ThKey])
              = ThNextAllowedAt(rateLimits[ThKey])]_vars

(* a second denied retry in a row has returned, and the row is the one the
   first allowed call of the window wrote *)
C29_Witness ==
  \E p \in Procs :
    /\ pc[p] = "th_done" /\ loc[p].op = "tokenThrottle"
    /\ ~loc[p].res.allowed
    /\ hist.denied >= 2 /\ Len(hist.allowedAt) = 1
    /\ rateLimits[ThKey] = ThNewRow(hist.allowedAt[1])
    /\ loc[p].now > hist.allowedAt[1]

(* a retry made when the wait told to the denied call is over is allowed *)
ThRetryAllowedAfterWait ==
  \E p \in Procs :
    /\ pc[p] = "th_done" /\ loc[p].op = "tokenThrottle"
    /\ loc[p].res.allowed
    /\ hist.denied >= 1
    /\ loc[p].now = ThNextAllowedAt(loc[p].found)

----------------------------------------------------------------------------
(* Identity resolution.  A header value is a sequence of characters;
   headers.get gives null for a header the request does not carry. *)

NoHeader == [present |-> FALSE, value |-> <<>>]

Header(chars) == [present |-> TRUE, value |-> chars]

(* a JavaScript string is truthy when it is not empty *)
Truthy(header) == header.present /\ header.value # <<>>

(* value.split(',')[0] *)
RECURSIVE SplitFirst(_)
SplitFirst(chars) ==
  IF chars = <<>> \/ Head(chars) = "," THEN <<>>
  ELSE <<Head(chars)>> \o SplitFirst(Tail(chars))

RECURSIVE TrimStart(_)
TrimStart(chars) ==
  IF chars # <<>> /\ Head(chars) = " " THEN TrimStart(Tail(chars)) ELSE chars

RECURSIVE TrimEnd(_)
TrimEnd(chars) ==
  IF chars # <<>> /\ chars[Len(chars)] = " "
  THEN TrimEnd(SubSeq(chars, 1, Len(chars) - 1)) ELSE chars

(* String.prototype.trim *)
Trim(chars) == TrimEnd(TrimStart(chars))

(* the string of a sequence of characters *)
RECURSIVE Str(_)
Str(chars) == IF chars = <<>> THEN "" ELSE Head(chars) \o Str(Tail(chars))

(* a getClientIP that does not trim the entry *)
getClientIP_NoTrim(request) ==
  IF Truthy(request.forwardedFor)
  THEN Str(SplitFirst(request.forwardedFor.value))
  ELSE IF Truthy(request.realIP) THEN Str(request.realIP.value)
  ELSE "unknown"

(* part_001 lines 107-122 *)
getClientIP(request) ==
  IF Truthy(request.forwardedFor)
  THEN Str(Trim(SplitFirst(request.forwardedFor.value)))
  ELSE IF Truthy(request.realIP) THEN Str(request.realIP.value)
  ELSE "unknown"

(* getSession: null, or the session and its user *)
NoSession == [id |-> "none", user |-> NoUser]

(* part_011 lines 2093-2095:
   sessionId = session?.session?.id || `anon_${clientIP}`,
   userId = session?.user?.id || null *)
ResolveIdentity(request) ==
  [sessionId |-> IF request.session = NoSession
                 THEN "anon_" \o getClientIP(request)
                 ELSE request.session.id,
   userId |-> request.session.user]

(* The requests of the run: x-forwarded-for is missing, empty, one address,
   or a list with blanks around its first address; x-real-ip is missing or
   one address; the caller is signed in as u1 under session sA or not. *)
ForwardedForValues ==
  {NoHeader, Header(<<>>), Header(<<"1">>), Header(<<"2">>),
   Header(<<" ", "1", " ", ",", "2">>)}

RealIPValues == {NoHeader, Header(<<"3">>)}

Requests ==
  [forwardedFor : ForwardedForValues, realIP : RealIPValues,
   session : {NoSession, [id |-> "sA", user |-> "u1"]}]

IdSessionIds == {ResolveIdentity(r).sessionId : r \in Requests}

IdInit ==
  /\ now = 2 * msPerDay + 2 * msPerHour
  /\ ticks = 0
  /\ mode = "serial"
  /\ storeFaults = FALSE
  /\ requestFingerprints = <<>>
  /\ limit = 1
  /\ rateLimits = <<>>
  /\ costTracking = <<>>
  /\ usageLog = <<>>
  /\ users = [u \in {"u1"} |->
               [subscriptionTier |-> "free", subscriptionStatus |-> "free"]]
  /\ sessionLimits = [k \in IdSessionIds |-> NoRow]
  /\ pc = [p \in Procs |-> "idle"]
  /\ loc = [p \in Procs |-> Idle]
  /\ hist = RlHist("identity", 0, 0)

(* a request arrives when the handlers have answered the earlier ones; the
   answers stay with their handlers *)
IdArrive(p) ==
  /\ pc[p] = "idle"
  /\ \A q \in Others(p) : pc[q] \in {"idle", "id_done"}
  /\ hist.calls < MaxRequests
  /\ hist' = [hist EXCEPT !.calls = @ + 1]
  /\ \E request \in Requests :
       /\ loc' = [loc EXCEPT ![p] =
                    [op |-> "identity", request |-> request,
                     seq |-> hist.calls + 1,
                     id |-> ResolveIdentity(request),
                     blocked |-> FALSE, daily |-> [pending |-> TRUE],
                     touched |-> {}, flagged |-> FALSE]]
       /\ pc' = [pc EXCEPT ![p] =
                    IF request.session = NoSession THEN "id_block"
                    ELSE "id_daily"]
  /\ UNCHANGED <<now, ticks, mode, storeFaults, requestFingerprints, limit,
                 rateLimits, sessionLimits, costTracking, usageLog, users>>

(* if (!session?.user): checkBlocked(sessionId) *)
IdBlock(p) ==
  /\ pc[p] = "id_block"
  /\ LET out == checkBlocked(sessionLimits, loc[p].id.sessionId, now)
         blocked == /\ out.res.isBlocked
                    /\ out.res.blockedUntil # NullTime
                    /\ out.res.blockedUntil > now
     IN  /\ sessionLimits' = out.tbl
         /\ loc' = [loc EXCEPT ![p].blocked = blocked]
         /\ pc' = [pc EXCEPT ![p] = IF blocked THEN "id_done" ELSE "id_daily"]
  /\ UNCHANGED <<now, ticks, mode, storeFaults, requestFingerprints, limit,
                 rateLimits, costTracking, usageLog, users, hist>>

(* checkDailyLimit(sessionId, userId) *)
IdDaily(p) ==
  /\ pc[p] = "id_daily"
  /\ \E out \in checkDailyLimit(sessionLimits, users, loc[p].id, now) :
       /\ sessionLimits' = out.tbl
       /\ loc' = [loc EXCEPT
                    ![p].daily = out.res,
                    ![p].touched = {k \in IdSessionIds :
                                      out.tbl[k] # sessionLimits[k]}]
  /\ pc' = [pc EXCEPT ![p] = "id_flag"]
  /\ UNCHANGED <<now, ticks, mode, storeFaults, requestFingerprints, limit,
                 rateLimits, costTracking, usageLog, users, hist>>

(* the scorer flags the request or not; a flagged session is blocked *)
IdFlag(p) ==
  /\ pc[p] = "id_flag"
  /\ \E flagged \in BOOLEAN :
       /\ sessionLimits' =
            IF flagged
            THEN blockSession(sessionLimits, loc[p].id.sessionId,
                              BLOCK_DURATION_MS, now)
            ELSE sessionLimits
       /\ loc' = [loc EXCEPT ![p].flagged = flagged]
  /\ pc' = [pc EXCEPT ![p] = "id_done"]
  /\ UNCHANGED <<now, ticks, mode, storeFaults, requestFingerprints, limit,
                 rateLimits, costTracking, usageLog, users, hist>>

IdReturn(p) ==
  /\ pc[p] = "id_done"
  /\ pc' = [pc EXCEPT ![p] = "idle"]
  /\ loc' = [loc EXCEPT ![p] = Idle]
  /\ UNCHANGED <<now, ticks, mode, storeFaults, requestFingerprints, limit,
                 rateLimits, sessionLimits, costTracking, usageLog, users,
                 hist>>

IdCallers == {1, 2}

IdNext ==
  \/ \E p \in IdCallers : IdArrive(p)
  \/ \E p \in IdCallers : IdBlock(p)
  \/ \E p \in IdCallers : IdDaily(p)
  \/ \E p \in IdCallers : IdFlag(p)
  \/ \E p \in IdCallers : IdReturn(p)

SpecIdentity == IdInit /\ [][IdNext]_vars

(* Claims about identity resolution *)

IdBlanks(n) == [i \in 1 .. n |-> " "]

(* e is the first entry of the comma-separated list v without the blanks
   around it *)
IdIsFirstEntry(e, v) ==
  /\ \A i \in DOMAIN e : e[i] # ","
  /\ e # <<>> => (e[1] # " " /\ e[Len(e)] # " ")
  /\ \E a, c \in 0 .. Len(v) :
       LET raw == IdBlanks(a) \o e \o IdBlanks(c) IN
       \/ v = raw
       \/ /\ Len(v) > Len(raw)
          /\ SubSeq(v, 1, Len(raw) + 1) = raw \o <<",">>

IdFirstEntries(v) ==
  {Str(e) : e \in {x \in {SubSeq(v, i, j) : i \in 1 .. Len(v) + 1,
                                            j \in 0 .. Len(v)} :
                     IdIsFirstEntry(x, v)}}

(* the client IP as C30 states it: the first, trimmed x-forwarded-for
   entry *)
IdStatedIps(request) ==
  IF request.forwardedFor.present
  THEN IdFirstEntries(request.forwardedFor.value)
  ELSE {}

(* the client IP: the first, trimmed x-forwarded-for entry of a header that
   is not empty, else the x-real-ip header if not empty, else 'unknown' *)
IdIps(request) ==
  IF request.forwardedFor.present /\ request.forwardedFor.value # <<>>
  THEN IdFirstEntries(request.forwardedFor.value)
  ELSE IF request.realIP.present /\ request.realIP.value # <<>>
  THEN {Str(request.realIP.value)}
  ELSE {"unknown"}

(* the handler of p holds an anonymous request *)
IdAnonymous(p) ==
  loc[p].op = "identity" /\ loc[p].request.session = NoSession

(* q is an anonymous request that came after the anonymous request p *)
IdAfter(p, q) ==
  IdAnonymous(p) /\ IdAnonymous(q) /\ loc[p].seq < loc[q].seq

IdDailyDone(p) == "pending" \notin DOMAIN loc[p].daily

(* checkDailyLimit allowed the request and counted it on a quota record *)
IdDailyAllowed(p) ==
  IdDailyDone(p) /\ loc[p].daily.allowed /\ loc[p].touched # {}

(* what C30 says of the requests, for client IPs given by ips *)
IdSharedBySameIp(ips(_)) ==
  /\ \A p \in Procs :
       IdAnonymous(p) =>
         \E ip \in ips(loc[p].request) :
           loc[p].id = [sessionId |-> "anon_" \o ip, userId |-> NoUser]
  /\ \A p, q \in Procs :
       (IdAfter(p, q) /\ IdDailyAllowed(p) /\ IdDailyAllowed(q)) =>
         IF ips(loc[p].request) = ips(loc[q].request)
         THEN /\ loc[q].touched = loc[p].touched
              /\ loc[q].daily.used > loc[p].daily.used
         ELSE loc[q].touched \cap loc[p].touched = {}
  /\ \A p, q \in Procs :
       (IdAfter(p, q) /\ pc[q] # "id_block") =>
         IF ips(loc[p].request) = ips(loc[q].request)
         THEN loc[p].flagged => loc[q].blocked
         ELSE /\ loc[q].id.sessionId # loc[p].id.sessionId
              /\ loc[q].blocked =>
                   sessionLimits[loc[q].id.sessionId].isBlocked

(* C30, as stated: a request without an authenticated session resolves to
   the session id 'anon_' followed by the first, trimmed x-forwarded-for
   entry; two anonymous requests from the same client IP use the same daily
   quota record and the same block state, and anonymous requests from
   different IPs never share them. *)
C30_AnonByForwardedFor == IdSharedBySameIp(IdStatedIps)

(* C30, amended: the client IP is the first, trimmed x-forwarded-for entry
   when the request has a non-empty x-forwarded-for header, else its
   x-real-ip header when not empty, else 'unknown'; a request without an
   authenticated session resolves to 'anon_' followed by that client IP, two
   such requests with the same client IP use the same daily quota record
   and the same block state, and two with different client IPs never share
   them. *)
C30_AnonByClientIp == IdSharedBySameIp(IdIps)

(* two anonymous requests whose x-forwarded-for headers differ and name the
   same first address share the quota record of anon_1 *)
C30_Witness ==
  \E p, q \in Procs :
    /\ IdAfter(p, q) /\ IdDailyDone(p) /\ IdDailyDone(q)
    /\ loc[p].request.forwardedFor = Header(<<" ", "1", " ", ",", "2">>)
    /\ loc[q].request.forwardedFor = Header(<<"1">>)
    /\ loc[q].id.sessionId = "anon_1"
    /\ loc[q].touched = {"anon_1"} /\ loc[p].touched = {"anon_1"}
    /\ loc[q].daily.used = 2

(* further cases that are reached *)
IdNoHeadersShared ==
  \E p, q \in Procs :
    /\ IdAfter(p, q) /\ loc[p].flagged
    /\ loc[p].request.forwardedFor = NoHeader
    /\ loc[p].request.realIP = NoHeader
    /\ loc[q].request.forwardedFor = Header(<<>>)
    /\ loc[q].id.sessionId = "anon_unknown"
    /\ loc[q].blocked

IdRealIpUsed ==
  \E p \in Procs :
    /\ IdAnonymous(p)
    /\ loc[p].request.forwardedFor = NoHeader
    /\ loc[p].id.sessionId = "anon_3"

IdDifferentIpsApart ==
  \E p, q \in Procs :
    /\ IdAfter(p, q) /\ loc[p].flagged /\ IdDailyDone(q)
    /\ loc[p].id.sessionId = "anon_2" /\ loc[q].id.sessionId = "anon_1"
    /\ ~loc[q].blocked /\ loc[q].daily.used = 1

====
